---- MODULE Spec2Model ----
(***************************************************************************)
(* Model of the client-side tracking / playback engine of iphone_track:    *)
(*   static/js/map.js  - the timer-driven animation engine (PlaybackEngine)*)
(*   static/js/app.js  - the live session controller, the poll loop and    *)
(*                       the history log (LiveSessionController,           *)
(*                       HistoryNavigator)                                 *)
(* JavaScript is single-threaded: every action below is one event-loop     *)
(* task (a click handler, a timer callback or the .then/.catch handler of  *)
(* a fetch), translated with every call it makes.                          *)
(***************************************************************************)
EXTENDS Integers, Sequences, FiniteSets, TLC

\* ------------------------------------------------------------------ bounds
MaxPts == 3        \* points of a recorded track offered to the animation
MaxTst == 2        \* GPS points the recorder collects during one behaviour
MaxNet == 2        \* fetches in flight at the same time
MaxAnim == 2       \* animation closures (drawNext) alive at the same time
FloatBits == 6     \* significand width of the scaled-down floating point
MaxClicks == 4     \* clicks on the mode and session buttons
MaxTracks == 3     \* clicks on Start Tracking
MaxOps == 4        \* step operations followed over one pause
MaxFaults == 1     \* responses that fail
MaxRestarts == 1   \* restarts of the backend
MaxLog == 3        \* GPS points the recorder collects while the history panel is in use
MaxHist == 4       \* length of a log built by direct calls of the history functions
MaxBatch == 2      \* points handed to the history functions in one call
MaxSegs == 301     \* segments of the longest track animated for its delay
MaxRunSegs == 3     \* segments of the longest track animated to its end

\* ------------------------------------------------------- program constants
ANIMATION_MS_PER_POINT == 200
ANIMATION_MAX_TOTAL_MS == 60000
MinDelayMs == 10
LIVE_POLL_INTERVAL_MS == 30000
\* distances are counted in units of 0.5 m: the 0.01 km noise floor is 20 units
NoiseFloor == 20
RoadFactorPct == 105

\* ---------------------------------------------------------------- helpers
Abs(x) == IF x < 0 THEN -x ELSE x
Min(a, b) == IF a < b THEN a ELSE b
Max(a, b) == IF a > b THEN a ELSE b
Last(q) == q[Len(q)]
Front(q) == SubSeq(q, 1, Len(q) - 1)

RECURSIVE Pow2(_)
Pow2(n) == IF n <= 0 THEN 1 ELSE 2 * Pow2(n - 1)

RECURSIVE BitLen(_)
BitLen(x) == IF x <= 0 THEN 0 ELSE 1 + BitLen(x \div 2)

\* Spacing of the representable numbers around x (the unit in the last place).
Ulp(x) == Pow2(BitLen(Abs(x)) - FloatBits)

\* IEEE-754 round-to-nearest, ties-to-even, of an exact value to FloatBits
\* significant bits: what every JavaScript Number operation does to its result.
FRound(x) ==
    LET m == Abs(x)
        u == Ulp(m)
        q == m \div u
        r == m % u
        n == IF 2 * r < u THEN q
             ELSE IF 2 * r > u THEN q + 1
             ELSE IF q % 2 = 0 THEN q ELSE q + 1
    IN  IF x < 0 THEN -(n * u) ELSE n * u

FAdd(a, b) == FRound(a + b)
FSub(a, b) == FRound(a - b)

\* ------------------------------------------------------------------- data
\* A GPS point {lat, lng, tst}: the position is a coordinate on a line.
Gaps == <<20, 80, 10, 40>>
RECURSIVE GapSum(_)
GapSum(n) == IF n <= 0 THEN 0 ELSE GapSum(n - 1) + Gaps[n]
PosOf(t) ==
    IF t <= 1 THEN 0
    ELSE ((t - 1) \div Len(Gaps)) * GapSum(Len(Gaps)) + GapSum((t - 1) % Len(Gaps))
Pt(t) == [tst |-> t, pos |-> PosOf(t)]
PtSeq(a, b) == [i \in 1..(IF b >= a THEN b - a + 1 ELSE 0) |-> Pt(a + i - 1)]

\* map.js _haversineJs: great-circle distance with the noise floor and the
\* road factor folded in (d >= 0.01 ? d * 1.05 : 0).
_haversineJs(p, q) ==
    LET d == Abs(p.pos - q.pos)
    IN  IF d >= NoiseFloor THEN FRound((d * RoadFactorPct) \div 100) ELSE 0

\* app.js haversineDistance: the raw great-circle distance.
haversineDistance(p, q) == Abs(p.pos - q.pos)

\* map.js _calcDelay
_calcDelay(totalSegments) ==
    LET totalMs == Min(totalSegments * ANIMATION_MS_PER_POINT, ANIMATION_MAX_TOTAL_MS)
    IN  Max(totalMs \div totalSegments, MinDelayMs)


\* the number of segments from which the total duration is capped
CapSegs == ANIMATION_MAX_TOTAL_MS \div ANIMATION_MS_PER_POINT

\* ------------------------------------------------------------------ state
VARIABLES
    \* map.js: animation engine
    animationTimer,            \* handle of the last setTimeout, 0 = null
    animationPaused,
    animationResumeFunc,       \* stored continuation: a drawNext closure, 0 = null
    animationRunning,
    animationDrawnSegments,    \* undo list: <<[polyline, distance, tst]>>
    animationCurrentIdx,
    animationRunningDistance,
    animationLayer,            \* the layer object the engine draws into
    animationSegments,         \* rich: <<[ride, idx]>>, basic: <<point>>
    animationFirstTimestamp,
    animationDelayMs,
    animationMode,             \* "null" | "rich" | "basic"
    animationOnComplete,       \* completion callback
    animationActivityType,
    onAnimationProgress,       \* progress observer: "null" | "tracking" | "live"
    activityLayers,            \* layer key -> [present, paths]
    livePolyline,              \* [present, path]: the polyline live points go to
    historyPolyline,           \* [present, path]: the truncated path of scrub mode
    livePathsHidden,           \* the live layer's paths are taken off the map
    \* app.js: live session controller and history log
    currentMode,               \* "datetime" | "live"
    livePollingInterval,       \* handle of the poll setInterval, 0 = null
    liveData,                  \* cached session snapshot
    lastDrawnTimestamp,        \* the poll watermark
    liveRideCounts,
    liveRidePoints,
    liveRidesData,
    liveAnimationShown,
    pollInProgress,            \* the single-flight flag
    historyModeActive,
    historyViewIndex,
    historyPoints,
    historyCumulativeStats,
    activeLayers,              \* datetime layers on the map
    startTrackingBtnDisabled,  \* DOM: #start-tracking-btn.disabled
    detectionData,             \* TRUE once a detection result is held
    dom,                       \* DOM: which buttons can be clicked
    \* the environment of the page
    timers,                    \* pending setTimeout callbacks: {[id, c]}
    closures,                  \* what each drawNext closure captured
    pollTimers,                \* armed setInterval handles
    net,                       \* fetches in flight
    server,                    \* the recorder's session
    \* history variables of the verification
    ev,                        \* what the last task did
    env,                       \* clicks, failed responses and restarts so far,
                               \* and whether the track of the session was replayed
    run,                       \* the animation since its start
    animCur                    \* closure of the latest started animation, 0 = none

vars == <<animationTimer, animationPaused, animationResumeFunc, animationRunning,
          animationDrawnSegments, animationCurrentIdx, animationRunningDistance,
          animationLayer, animationSegments, animationFirstTimestamp,
          animationDelayMs, animationMode, animationOnComplete,
          animationActivityType, onAnimationProgress, activityLayers, livePolyline,
          historyPolyline, livePathsHidden,
          currentMode, livePollingInterval, liveData, lastDrawnTimestamp,
          liveRideCounts, liveRidePoints, liveRidesData, liveAnimationShown,
          pollInProgress, historyModeActive, historyViewIndex, historyPoints,
          historyCumulativeStats, activeLayers, startTrackingBtnDisabled,
          detectionData, dom,
          timers, closures, pollTimers, net, server, ev, env, run, animCur>>

\* The state as one record, so that a handler is the composition of the
\* functions it calls.
St ==
    [animationTimer |-> animationTimer, animationPaused |-> animationPaused,
     animationResumeFunc |-> animationResumeFunc, animationRunning |-> animationRunning,
     animationDrawnSegments |-> animationDrawnSegments,
     animationCurrentIdx |-> animationCurrentIdx,
     animationRunningDistance |-> animationRunningDistance,
     animationLayer |-> animationLayer, animationSegments |-> animationSegments,
     animationFirstTimestamp |-> animationFirstTimestamp,
     animationDelayMs |-> animationDelayMs, animationMode |-> animationMode,
     animationOnComplete |-> animationOnComplete,
     animationActivityType |-> animationActivityType,
     onAnimationProgress |-> onAnimationProgress, activityLayers |-> activityLayers,
     livePolyline |-> livePolyline,
     historyPolyline |-> historyPolyline, livePathsHidden |-> livePathsHidden,
     currentMode |-> currentMode, livePollingInterval |-> livePollingInterval,
     liveData |-> liveData, lastDrawnTimestamp |-> lastDrawnTimestamp,
     liveRideCounts |-> liveRideCounts, liveRidePoints |-> liveRidePoints,
     liveRidesData |-> liveRidesData, liveAnimationShown |-> liveAnimationShown,
     pollInProgress |-> pollInProgress, historyModeActive |-> historyModeActive,
     historyViewIndex |-> historyViewIndex, historyPoints |-> historyPoints,
     historyCumulativeStats |-> historyCumulativeStats,
     activeLayers |-> activeLayers,
     startTrackingBtnDisabled |-> startTrackingBtnDisabled,
     detectionData |-> detectionData, dom |-> dom,
     timers |-> timers, closures |-> closures, pollTimers |-> pollTimers,
     net |-> net, server |-> server, ev |-> ev, env |-> env, run |-> run,
     animCur |-> animCur]

\* ----------------------------------------------------------- value shapes
ActivityTypes == {"car", "bike", "other"}
LayerKeys == ActivityTypes \cup {"all", "live"}
ClosureIds == 1..MaxAnim

NoCallback == [kind |-> "null", type |-> "none", tst |-> 0, then |-> "none"]
NullSegments == [null |-> TRUE, list |-> <<>>]
NoLayer == [key |-> "null", attached |-> FALSE, paths |-> <<>>]
AbsentLayer == [present |-> FALSE, paths |-> <<>>]
NoClosure == [mode |-> "null", len |-> 0]
NoPolyline == [present |-> FALSE, path |-> <<>>]
ZeroCounts == [t \in ActivityTypes |-> 0]
NoLiveData == [set |-> FALSE, start_timestamp |-> 0, total_points |-> 0]

\* What one task did: the handler that ran, the segments it drew, the progress
\* reports and onComplete calls it made, the polls it put on the wire, whether a
\* pollLiveData call was turned away by the single-flight flag, whether the
\* task ended in an uncaught exception, and (for a poll response) whether the
\* request had been sent before a stopLivePolling.
NoMark == [some |-> FALSE, idx |-> 0, dist |-> 0, drawn |-> 0, paths |-> 0, ops |-> 0]

\* The animation since its start: whether a timer of an earlier animation was
\* pending when it started, whether a stepBack took a segment back, how often
\* its onComplete ran; and, over the stepForward / stepBack calls that
\* followed one another last, the state before each stepForward still to be
\* undone (marks), the additions and subtractions made (ops) and the largest
\* distance reached (peak).
NewRun(overlap) == [overlap |-> overlap, back |-> FALSE, completes |-> 0,
                    marks |-> <<>>, ops |-> 0, peak |-> 0]

Ev0(op) == [op |-> op, draw |-> 0, progress |-> 0, complete |-> 0, sent |-> 0,
            undo |-> 0, started |-> FALSE, overlap |-> FALSE,
            skipped |-> FALSE, threw |-> FALSE, stale |-> FALSE,
            restored |-> NoMark, peak |-> 0, exited |-> FALSE, delta |-> 0,
            outcome |-> "none"]

\* The session state the page caches besides liveData: the watermark, the
\* per-type counters, the cached rides, liveAnimationShown and the history
\* log (app.js, the module variables written at 948-953 and 1393-1398).
CachedSession(s) ==
    [lastDrawnTimestamp |-> s.lastDrawnTimestamp,
     liveRideCounts |-> s.liveRideCounts, liveRidePoints |-> s.liveRidePoints,
     liveRidesData |-> s.liveRidesData,
     liveAnimationShown |-> s.liveAnimationShown,
     historyPoints |-> s.historyPoints]
NoCachedSession ==
    [lastDrawnTimestamp |-> 0, liveRideCounts |-> ZeroCounts,
     liveRidePoints |-> ZeroCounts, liveRidesData |-> ZeroCounts,
     liveAnimationShown |-> FALSE, historyPoints |-> <<>>]

\* ---------------------------------------------------------------- fetches
\* A fetch in flight.  kind: "poll" | "start" | "status" | "liveTrack" |
\* "track" | "refresh" | "detect".  The request fields are what the page
\* sent and what the handler's closure captured; handled, ok and the fields
\* after it are the response, filled in when the server handles the request.
\* before is a history field: the cached session state when the function that
\* sent a start was called.
Fetch(kind) ==
    [id |-> 0, kind |-> kind,
     wm |-> 0,            \* poll: last_drawn_timestamp in the body
     intent |-> "none",   \* start: "fresh" | "join" | "resume" | "reset"
     animate |-> FALSE,   \* join: shouldAnimate; liveTrack: animate
     type |-> "none",     \* track, refresh: the activity type
     then |-> "none",     \* liveTrack: the onComplete of the caller
     stale |-> FALSE,     \* poll: stopLivePolling ran after it was sent
     before |-> NoCachedSession,
     handled |-> FALSE, ok |-> FALSE,
     start |-> 0,         \* response: start_timestamp of the session
     lo |-> 0, hi |-> 0,  \* response: the points returned are lo+1 .. hi
     has_session |-> FALSE, is_active |-> FALSE, is_stale |-> FALSE]

\* the smallest handle no fetch in flight uses
FreeFetchId(s) == CHOOSE i \in 1..(Cardinality(s.net) + 1) :
                      /\ \A r \in s.net : r.id # i
                      /\ \A j \in 1..(i - 1) : \E r \in s.net : r.id = j

fetch(s, req) == [s EXCEPT !.net = @ \cup {[req EXCEPT !.id = FreeFetchId(s)]}]

\* ------------------------------------------------------- app.js: history
\* addPointsToHistory that pushes the points and no stats
addPointsToHistoryNoStats(s, newPoints) ==
    [s EXCEPT !.historyPoints = @ \o newPoints]

\* addPointsToHistory that stores the distance of the last segment instead
\* of the running total
RECURSIVE addPointsToHistoryPerSegment(_, _)
addPointsToHistoryPerSegment(s, newPoints) ==
    IF newPoints = <<>> THEN s
    ELSE LET point == Head(newPoints)
             pointIndex == Len(s.historyPoints)
             segmentDist == haversineDistance(s.historyPoints[pointIndex], point)
             cumulativeDistance ==
                 IF pointIndex > 0 /\ segmentDist >= NoiseFloor
                 THEN FRound((segmentDist * RoadFactorPct) \div 100)
                 ELSE 0
             duration == IF pointIndex > 0 THEN point.tst - s.historyPoints[1].tst ELSE 0
         IN  addPointsToHistoryPerSegment(
                 [s EXCEPT !.historyPoints = Append(@, point),
                           !.historyCumulativeStats =
                               Append(@, [tst |-> point.tst, distance |-> cumulativeDistance,
                                          duration |-> duration, pointCount |-> pointIndex + 1])],
                 Tail(newPoints))

\* addPointsToHistory that measures every segment from the first point of
\* the log instead of the immediately preceding one
RECURSIVE addPointsToHistoryFromFirst(_, _)
addPointsToHistoryFromFirst(s, newPoints) ==
    IF newPoints = <<>> THEN s
    ELSE LET point == Head(newPoints)
             pointIndex == Len(s.historyPoints)
             prevPoint == s.historyPoints[1]
             prevCum == s.historyCumulativeStats[pointIndex].distance
             segmentDist == haversineDistance(prevPoint, point)
             cumulativeDistance ==
                 IF pointIndex > 0
                 THEN IF segmentDist >= NoiseFloor
                      THEN FAdd(prevCum, FRound((segmentDist * RoadFactorPct) \div 100))
                      ELSE prevCum
                 ELSE 0
             duration == IF pointIndex > 0 THEN point.tst - s.historyPoints[1].tst ELSE 0
         IN  addPointsToHistoryFromFirst(
                 [s EXCEPT !.historyPoints = Append(@, point),
                           !.historyCumulativeStats =
                               Append(@, [tst |-> point.tst, distance |-> cumulativeDistance,
                                          duration |-> duration, pointCount |-> pointIndex + 1])],
                 Tail(newPoints))

\* addPointsToHistory (app.js 1701-1737), one loop iteration per call
RECURSIVE addPointsToHistory(_, _)
addPointsToHistory(s, newPoints) ==
    IF newPoints = <<>> THEN s
    ELSE LET point == Head(newPoints)
             pointIndex == Len(s.historyPoints)
             prevPoint == s.historyPoints[pointIndex]
             prevCum == s.historyCumulativeStats[pointIndex].distance
             segmentDist == haversineDistance(prevPoint, point)
             cumulativeDistance ==
                 IF pointIndex > 0
                 THEN IF segmentDist >= NoiseFloor
                      THEN FAdd(prevCum, FRound((segmentDist * RoadFactorPct) \div 100))
                      ELSE prevCum
                 ELSE 0
             duration == IF pointIndex > 0 THEN point.tst - s.historyPoints[1].tst ELSE 0
         IN  addPointsToHistory(
                 [s EXCEPT !.historyPoints = Append(@, point),
                           !.historyCumulativeStats =
                               Append(@, [tst |-> point.tst, distance |-> cumulativeDistance,
                                          duration |-> duration, pointCount |-> pointIndex + 1])],
                 Tail(newPoints))

\* the loop of initializeHistoryFromPoints: i is the 1-based loop index
RECURSIVE InitHistoryLoop(_, _, _, _)
InitHistoryLoop(points, i, cumulativeDistance, acc) ==
    IF i > Len(points) THEN acc
    ELSE LET point == points[i]
             segmentDist == haversineDistance(points[i - 1], point)
             cum == IF i > 1 /\ segmentDist >= NoiseFloor
                    THEN FAdd(cumulativeDistance, FRound((segmentDist * RoadFactorPct) \div 100))
                    ELSE cumulativeDistance
             duration == IF i > 1 THEN point.tst - points[1].tst ELSE 0
         IN  InitHistoryLoop(points, i + 1, cum,
                 Append(acc, [tst |-> point.tst, distance |-> cum,
                              duration |-> duration, pointCount |-> i]))

\* initializeHistoryFromPoints whose loop starts at the second point
initializeHistoryFromPointsSkipFirst(s, points) ==
    [s EXCEPT !.historyPoints = points,
              !.historyCumulativeStats = InitHistoryLoop(points, 2, 0, <<>>),
              !.historyModeActive = FALSE,
              !.historyViewIndex = -1]

\* initializeHistoryFromPoints (app.js 1977-2012)
initializeHistoryFromPoints(s, points) ==
    [s EXCEPT !.historyPoints = points,
              !.historyCumulativeStats = InitHistoryLoop(points, 1, 0, <<>>),
              !.historyModeActive = FALSE,
              !.historyViewIndex = -1]

\* resetHistoryState (app.js 1963-1975)
resetHistoryState(s) ==
    [s EXCEPT !.historyModeActive = FALSE, !.historyViewIndex = -1,
              !.historyPoints = <<>>, !.historyCumulativeStats = <<>>,
              !.historyPolyline = NoPolyline, !.livePathsHidden = FALSE,
              !.dom.historyPanel = FALSE]

\* --------------------------------------------------------- map.js: layers
\* Handles of the polylines in a layer's paths: a segment drawn by the
\* animation started as closure a at index i and ending at the point with
\* timestamp t, the live polyline, or segment i of a layer drawn at once
\* (addRichLayer / addBasicLayer).
LivePolylineHandle == [a |-> 0, i |-> 0, t |-> 0]
InstantHandle(i) == [a |-> -1, i |-> i, t |-> 0]

\* delete activityLayers[key]: the layer object lives on, detached, while the
\* engine still refers to it through animationLayer
DeleteLayer(s, key) ==
    LET s1 == IF s.animationLayer.key = key /\ s.animationLayer.attached
              THEN [s EXCEPT !.animationLayer =
                        [key |-> key, attached |-> FALSE,
                         paths |-> s.activityLayers[key].paths]]
              ELSE s
    IN  [s1 EXCEPT !.activityLayers[key] = AbsentLayer]

RECURSIVE DeleteLayers(_, _)
DeleteLayers(s, keys) ==
    IF keys = {} THEN s
    ELSE LET k == CHOOSE x \in keys : TRUE
         IN  DeleteLayers(DeleteLayer(s, k), keys \ {k})

\* clearAllLayers (map.js 47-65)
clearAllLayers(s) ==
    [DeleteLayers(s, LayerKeys) EXCEPT !.livePolyline = NoPolyline]

\* clearActivityLayer (map.js 82-94)
clearActivityLayer(s, activityType) ==
    IF ~s.activityLayers[activityType].present THEN s
    ELSE DeleteLayer(s, activityType)

\* clearHistoryState (map.js 1253-1261)
clearHistoryState(s) ==
    [s EXCEPT !.historyPolyline = NoPolyline, !.livePathsHidden = FALSE]

\* clearLiveLayer (map.js 1115-1137)
clearLiveLayer(s) ==
    clearHistoryState(
        [(IF s.activityLayers["live"].present THEN DeleteLayer(s, "live") ELSE s)
            EXCEPT !.livePolyline = NoPolyline])

\* activityLayers[key] = {paths: [], ...} unless the layer exists
EnsureLayer(s, key) ==
    IF s.activityLayers[key].present THEN s
    ELSE [s EXCEPT !.activityLayers[key] = [present |-> TRUE, paths |-> <<>>]]

\* addRichLayer / addBasicLayer (map.js 96-138, 140-): n segments at once
addLayerInstant(s, key, n) ==
    [EnsureLayer(s, key) EXCEPT
        !.activityLayers[key].paths = @ \o [i \in 1..n |-> InstantHandle(i)]]

\* initLiveLayer (map.js 1078-1104)
initLiveLayer(s) ==
    IF s.livePolyline.present THEN s
    ELSE LET s1 == [s EXCEPT !.livePolyline = [present |-> TRUE, path |-> <<>>]]
         IN  IF ~s1.activityLayers["live"].present
             THEN [s1 EXCEPT !.activityLayers["live"] =
                       [present |-> TRUE, paths |-> <<LivePolylineHandle>>]]
             ELSE [s1 EXCEPT !.activityLayers["live"].paths = Append(@, LivePolylineHandle)]

\* appendLivePoint (map.js 1106-1113)
appendLivePoint(s, point) ==
    LET s1 == IF ~s.livePolyline.present THEN initLiveLayer(s) ELSE s
    IN  [s1 EXCEPT !.livePolyline.path = Append(@, point.tst)]

\* appendLivePoints (app.js 1678-1695)
RECURSIVE appendLivePoints(_, _)
appendLivePoints(s, newPoints) ==
    IF newPoints = <<>> THEN s
    ELSE appendLivePoints(appendLivePoint(s, Head(newPoints)), Tail(newPoints))

\* drawLiveTrackInstant (app.js 1660-1676)
drawLiveTrackInstant(s, points) ==
    LET s1 == appendLivePoints(initLiveLayer(s), points)
    IN  IF Len(points) > 0
        THEN [s1 EXCEPT !.lastDrawnTimestamp = Last(points).tst]
        ELSE s1

\* ------------------------------------- map.js: the path of the scrub view
\* truncateLivePolyline (map.js 1162-1201): the live paths leave the map and
\* a temporary polyline shows the log up to toIndex (0-based)
truncateLivePolyline(s, toIndex) ==
    LET points == s.historyPoints
        n == Min(toIndex + 1, Len(points))
    IN  IF Len(points) = 0 THEN s
        ELSE [s EXCEPT !.livePathsHidden = TRUE,
                       !.historyPolyline =
                           [present |-> TRUE,
                            path |-> [i \in 1..Max(n, 0) |-> points[i].tst]]]

\* restoreLivePolyline (map.js 1203-1222)
restoreLivePolyline(s) ==
    [s EXCEPT !.historyPolyline = NoPolyline, !.livePathsHidden = FALSE]

\* --------------------------------------------- app.js: history navigation
\* updateHistoryPanel and updateHistoryButtons (app.js 1751-1860): the panel
\* shows while the log has points; the back buttons are disabled at the
\* first point, the forward buttons at the last, the jump button is on
\* display while scrubbing or when the log has more than one point
updateHistoryPanel(s) ==
    LET totalPoints == Len(s.historyPoints)
        viewIndex == IF s.historyModeActive THEN s.historyViewIndex ELSE totalPoints - 1
    IN  IF totalPoints = 0 THEN [s EXCEPT !.dom.historyPanel = FALSE]
        ELSE IF viewIndex < 0 \/ viewIndex >= totalPoints
        THEN [s EXCEPT !.dom.historyPanel = TRUE]
        ELSE [s EXCEPT !.dom.historyPanel = TRUE,
                       !.dom.historyBackDisabled = (viewIndex <= 0),
                       !.dom.historyFwdDisabled = (viewIndex >= totalPoints - 1),
                       !.dom.historyJumpShown = (s.historyModeActive \/ totalPoints > 1)]

\* exitHistoryMode that cuts the log at the point on view
exitHistoryModeTruncating(s) ==
    updateHistoryPanel(
        restoreLivePolyline(
            [s EXCEPT !.historyModeActive = FALSE,
                      !.historyViewIndex = -1,
                      !.historyPoints = SubSeq(@, 1, Min(Len(@), Max(s.historyViewIndex, 0) + 1)),
                      !.historyCumulativeStats =
                          SubSeq(@, 1, Min(Len(@), Max(s.historyViewIndex, 0) + 1)),
                      !.ev.exited = TRUE]))

\* exitHistoryMode (app.js 1903-1927)
exitHistoryMode(s) ==
    updateHistoryPanel(
        restoreLivePolyline([s EXCEPT !.historyModeActive = FALSE,
                                      !.historyViewIndex = -1,
                                      !.ev.exited = TRUE]))

\* navigateHistory that does not clamp a negative index to 0
navigateHistoryUnclamped(s, delta) ==
    LET totalPoints == Len(s.historyPoints)
        s1 == IF ~s.historyModeActive
              THEN [s EXCEPT !.historyModeActive = TRUE,
                             !.historyViewIndex = totalPoints - 1]
              ELSE s
        s2 == [s1 EXCEPT !.historyViewIndex = @ + delta]
    IN  IF totalPoints = 0 THEN s
        ELSE IF s2.historyViewIndex >= totalPoints THEN exitHistoryMode(s2)
        ELSE updateHistoryPanel(truncateLivePolyline(s2, s2.historyViewIndex))

\* navigateHistory that leaves scrub mode as soon as the target is the tail
navigateHistoryExitAtTail(s, delta) ==
    LET totalPoints == Len(s.historyPoints)
        s1 == IF ~s.historyModeActive
              THEN [s EXCEPT !.historyModeActive = TRUE,
                             !.historyViewIndex = totalPoints - 1]
              ELSE s
        s2 == [s1 EXCEPT !.historyViewIndex = @ + delta]
        s3 == IF s2.historyViewIndex < 0 THEN [s2 EXCEPT !.historyViewIndex = 0] ELSE s2
    IN  IF totalPoints = 0 THEN s
        ELSE IF s3.historyViewIndex >= totalPoints - 1 THEN exitHistoryMode(s3)
        ELSE updateHistoryPanel(truncateLivePolyline(s3, s3.historyViewIndex))

\* navigateHistory (app.js 1862-1901)
navigateHistory(s, delta) ==
    LET totalPoints == Len(s.historyPoints)
        s1 == IF ~s.historyModeActive
              THEN [s EXCEPT !.historyModeActive = TRUE,
                             !.historyViewIndex = totalPoints - 1]
              ELSE s
        s2 == [s1 EXCEPT !.historyViewIndex = @ + delta]
        s3 == IF s2.historyViewIndex < 0 THEN [s2 EXCEPT !.historyViewIndex = 0] ELSE s2
    IN  IF totalPoints = 0 THEN s
        ELSE IF s3.historyViewIndex >= totalPoints THEN exitHistoryMode(s3)
        ELSE updateHistoryPanel(truncateLivePolyline(s3, s3.historyViewIndex))

\* handleHistoryJumpButton that also jumps on a log of a single point
handleHistoryJumpButtonSinglePoint(s) ==
    IF s.historyModeActive THEN exitHistoryMode(s)
    ELSE IF Len(s.historyPoints) < 1 THEN s
    ELSE updateHistoryPanel(
             truncateLivePolyline([s EXCEPT !.historyModeActive = TRUE,
                                            !.historyViewIndex = 0], 0))

\* handleHistoryJumpButton (app.js 1929-1961)
handleHistoryJumpButton(s) ==
    IF s.historyModeActive THEN exitHistoryMode(s)
    ELSE IF Len(s.historyPoints) <= 1 THEN s
    ELSE updateHistoryPanel(
             truncateLivePolyline([s EXCEPT !.historyModeActive = TRUE,
                                            !.historyViewIndex = 0], 0))

\* ------------------------------------------------- app.js: the poll loop
\* pollLiveData with the single-flight guard dropped
pollLiveDataUnguarded(s) ==
    fetch([s EXCEPT !.pollInProgress = TRUE, !.ev.sent = @ + 1],
          [Fetch("poll") EXCEPT !.wm = s.lastDrawnTimestamp])

\* pollLiveData (app.js 1157-1176): the synchronous part, up to the fetch
pollLiveData(s) ==
    IF s.pollInProgress THEN [s EXCEPT !.ev.skipped = TRUE]
    ELSE fetch([s EXCEPT !.pollInProgress = TRUE, !.ev.sent = @ + 1],
               [Fetch("poll") EXCEPT !.wm = s.lastDrawnTimestamp])

\* the smallest setInterval handle not armed
FreeIntervalId(s) == CHOOSE i \in 1..(Cardinality(s.pollTimers) + 1) :
                         /\ i \notin s.pollTimers
                         /\ \A j \in 1..(i - 1) : j \in s.pollTimers

\* startLivePolling without the check for a running interval
startLivePollingUnguarded(s) ==
    LET id == FreeIntervalId(s)
    IN  pollLiveData([s EXCEPT !.livePollingInterval = id,
                               !.pollTimers = @ \cup {id}])

\* startLivePolling (app.js 1000-1013)
startLivePolling(s) ==
    IF s.livePollingInterval # 0 THEN s
    ELSE LET id == FreeIntervalId(s)
         IN  pollLiveData([s EXCEPT !.livePollingInterval = id,
                                    !.pollTimers = @ \cup {id}])

\* stopLivePolling that leaves the single-flight flag to the poll on the wire
stopLivePollingKeepsFlag(s) ==
    [s EXCEPT !.pollTimers = @ \ {s.livePollingInterval},
              !.livePollingInterval = 0,
              !.net = {IF r.kind = "poll" THEN [r EXCEPT !.stale = TRUE] ELSE r : r \in @}]

\* stopLivePolling (app.js 1015-1028); the polls on the wire are marked as
\* sent before a stop
stopLivePolling(s) ==
    [s EXCEPT !.pollTimers = @ \ {s.livePollingInterval},
              !.livePollingInterval = 0,
              !.pollInProgress = FALSE,
              !.net = {IF r.kind = "poll" THEN [r EXCEPT !.stale = TRUE] ELSE r : r \in @}]

\* ------------------------------------------------------------- callbacks
\* The onComplete callbacks handed to the engine:
\*   "tracking": the callback of startTracking (app.js 413-420)
\*   "live":     the callback of loadLiveTrack (app.js 1632-1638), which ends
\*               with the onComplete of its caller (then): joinLiveSession /
\*               resumeLiveSession pass "shown" (liveAnimationShown = true;
\*               startLivePolling()) or "poll" (startLivePolling())
loadLiveTrackDone(s, then) ==
    IF then = "shown" THEN startLivePolling([s EXCEPT !.liveAnimationShown = TRUE])
    ELSE IF then = "poll" THEN startLivePolling(s)
    ELSE s

RunCallback(s, cb) ==
    IF cb.kind = "null" THEN s
    ELSE LET s0 == [s EXCEPT !.ev.complete = @ + 1]
         IN  IF cb.kind = "tracking"
             THEN [s0 EXCEPT !.activeLayers = @ \cup {cb.type},
                             !.onAnimationProgress = "null",
                             !.startTrackingBtnDisabled = FALSE]
             ELSE loadLiveTrackDone(
                      updateHistoryPanel(
                          [s0 EXCEPT !.onAnimationProgress = "null",
                                     !.lastDrawnTimestamp = cb.tst,
                                     !.env.replayed = TRUE]),
                      cb.then)

\* ------------------------------------------------ map.js: animation engine
\* the smallest setTimeout handle neither pending nor still held in
\* animationTimer (the browser never hands out a handle twice)
UsedTimerIds(s) == {t.id : t \in s.timers} \cup {s.animationTimer}
FreeTimerId(s) == CHOOSE i \in 1..(Cardinality(s.timers) + 2) :
                      /\ i \notin UsedTimerIds(s)
                      /\ \A j \in 1..(i - 1) : j \in UsedTimerIds(s)

clearTimeout(s, id) == [s EXCEPT !.timers = {t \in @ : t.id # id}]

\* closures something still refers to
LiveClosures(s) == {t.c : t \in s.timers} \cup ({s.animationResumeFunc, s.animCur} \ {0})
FreeClosures(s) == ClosureIds \ LiveClosures(s)

\* the paths of the layer object animationLayer refers to
AnimPaths(s) ==
    IF s.animationLayer.attached THEN s.activityLayers[s.animationLayer.key].paths
    ELSE s.animationLayer.paths
SetAnimPaths(s, p) ==
    IF s.animationLayer.attached
    THEN [s EXCEPT !.activityLayers[s.animationLayer.key].paths = p]
    ELSE [s EXCEPT !.animationLayer.paths = p]

\* stopAnimation (map.js 343-365)
stopAnimation(s) ==
    LET s1 == IF s.animationTimer # 0 THEN clearTimeout(s, s.animationTimer) ELSE s
    IN  [s1 EXCEPT !.animationTimer = 0, !.animationPaused = FALSE,
                   !.animationResumeFunc = 0, !.animationRunning = FALSE,
                   !.animationDrawnSegments = <<>>, !.animationCurrentIdx = 0,
                   !.animationRunningDistance = 0, !.animationLayer = NoLayer,
                   !.animationSegments = NullSegments, !.animationMode = "null",
                   !.animationOnComplete = NoCallback, !.animationActivityType = "null",
                   !.animCur = 0, !.run = NewRun(FALSE)]

\* _hasMoreSegments (map.js 433-440)
_hasMoreSegments(s) ==
    IF s.animationSegments.null THEN FALSE
    ELSE s.animationCurrentIdx < Len(s.animationSegments.list)

\* _fireProgress (map.js 442-473)
_fireProgress(s) ==
    IF s.onAnimationProgress = "null" THEN s
    ELSE [s EXCEPT !.ev.progress = @ + 1]

\* one drawn segment that moves the index on by two
PushSegmentSkipping(s, segDist, endPoint) ==
    LET pathSegment == [a |-> s.animCur, i |-> s.animationCurrentIdx,
                        t |-> endPoint.tst]
    IN  [SetAnimPaths(s, Append(AnimPaths(s), pathSegment)) EXCEPT
            !.animationRunningDistance = FAdd(@, segDist),
            !.animationDrawnSegments =
                Append(@, [polyline |-> pathSegment, distance |-> segDist,
                           tst |-> endPoint.tst]),
            !.animationCurrentIdx = @ + 2,
            !.ev.draw = @ + 1]

\* one drawn segment: the polyline goes to the layer and to the undo list
PushSegment(s, segDist, endPoint) ==
    LET pathSegment == [a |-> s.animCur, i |-> s.animationCurrentIdx,
                        t |-> endPoint.tst]
    IN  [SetAnimPaths(s, Append(AnimPaths(s), pathSegment)) EXCEPT
            !.animationRunningDistance = FAdd(@, segDist),
            !.animationDrawnSegments =
                Append(@, [polyline |-> pathSegment, distance |-> segDist,
                           tst |-> endPoint.tst]),
            !.animationCurrentIdx = @ + 1,
            !.ev.draw = @ + 1]

\* _drawOneRichSegment (map.js 520-555); JavaScript indexes from 0
_drawOneRichSegment(s) ==
    IF s.animationCurrentIdx >= Len(s.animationSegments.list) THEN s
    ELSE LET seg == s.animationSegments.list[s.animationCurrentIdx + 1]
             ride == seg.ride
             i == seg.idx
         IN  PushSegment(s, _haversineJs(ride.points[i], ride.points[i + 1]),
                         ride.points[i + 1])

\* _drawOneBasicSegment (map.js 557-589)
_drawOneBasicSegment(s) ==
    LET points == s.animationSegments.list
    IN  IF s.animationCurrentIdx >= Len(points) THEN s
        ELSE PushSegment(s, _haversineJs(points[s.animationCurrentIdx],
                                         points[s.animationCurrentIdx + 1]),
                         points[s.animationCurrentIdx + 1])

\* _drawOneSegment (map.js 512-518)
_drawOneSegment(s) ==
    IF s.animationMode = "rich" THEN _drawOneRichSegment(s) ELSE _drawOneBasicSegment(s)

\* A draw function of the given mode ends in an exception when the module
\* state is not what it expects: animationSegments is null after a stop
\* (TypeError on .length), or holds the list of the other mode (rich reads
\* seg.ride.points of a point, basic hands the map a path without lat/lng).
DrawThrows(s, mode) ==
    \/ s.animationSegments.null
    \/ /\ s.animationCurrentIdx < Len(s.animationSegments.list)
       /\ s.animationMode # mode

\* setTimeout(drawNext, delayMs) of closure c
setTimeout(s, c) ==
    LET id == FreeTimerId(s)
    IN  [s EXCEPT !.timers = @ \cup {[id |-> id, c |-> c]}, !.animationTimer = id]

\* drawNext of closure c (map.js 669-693 for rich, 767-818 for basic): the
\* closure holds its own list length and its own draw function, everything
\* else is module state
drawNext(s, c) ==
    IF s.animationPaused THEN [s EXCEPT !.animationResumeFunc = c]
    ELSE IF s.animationCurrentIdx >= s.closures[c].len
    THEN LET s1 == [s EXCEPT !.animationRunning = FALSE]
             s2 == RunCallback(s1, s1.animationOnComplete)
         IN  [s2 EXCEPT !.animationTimer = 0,
                        !.run.completes = @ + (s2.ev.complete - s1.ev.complete)]
    ELSE IF DrawThrows(s, s.closures[c].mode) THEN [s EXCEPT !.ev.threw = TRUE]
    ELSE LET s1 == IF s.closures[c].mode = "rich" THEN _drawOneRichSegment(s)
                   ELSE _drawOneBasicSegment(s)
             s2 == _fireProgress(s1)
         IN  setTimeout([s2 EXCEPT !.animationResumeFunc = c], c)

\* togglePause whose resume clears the flag and the stored continuation
\* without calling it
togglePauseDropsContinuation(s) ==
    IF ~s.animationRunning THEN s
    ELSE IF s.animationPaused
    THEN [s EXCEPT !.animationPaused = FALSE, !.animationResumeFunc = 0]
    ELSE LET s1 == [s EXCEPT !.animationPaused = TRUE]
         IN  IF s1.animationTimer # 0
             THEN [clearTimeout(s1, s1.animationTimer) EXCEPT !.animationTimer = 0]
             ELSE s1

\* togglePause (map.js 367-390)
togglePause(s) ==
    IF ~s.animationRunning THEN s
    ELSE IF s.animationPaused
    THEN LET s1 == [s EXCEPT !.animationPaused = FALSE]
         IN  IF s1.animationResumeFunc # 0
             THEN drawNext([s1 EXCEPT !.animationResumeFunc = 0], s1.animationResumeFunc)
             ELSE s1
    ELSE LET s1 == [s EXCEPT !.animationPaused = TRUE]
         IN  IF s1.animationTimer # 0
             THEN [clearTimeout(s1, s1.animationTimer) EXCEPT !.animationTimer = 0]
             ELSE s1

\* the sequence without the last occurrence of x (indexOf + splice on a list
\* whose handles are distinct objects)
RECURSIVE RemoveLast(_, _)
RemoveLast(seq, x) ==
    IF seq = <<>> THEN <<>>
    ELSE IF Last(seq) = x THEN Front(seq)
    ELSE Append(RemoveLast(Front(seq), x), Last(seq))

\* stepBack that leaves the running distance as it is
stepBackKeepDistance(s) ==
    IF ~s.animationPaused \/ ~s.animationRunning THEN s
    ELSE IF Len(s.animationDrawnSegments) = 0 THEN s
    ELSE LET entry == Last(s.animationDrawnSegments)
             s1 == [s EXCEPT !.animationDrawnSegments = Front(@)]
             s2 == IF s1.animationLayer.key # "null"
                   THEN SetAnimPaths(s1, RemoveLast(AnimPaths(s1), entry.polyline))
                   ELSE s1
             s3 == [s2 EXCEPT !.animationCurrentIdx = @ - 1,
                              !.ev.undo = @ + 1, !.run.back = TRUE]
         IN  _fireProgress(s3)

\* stepBack that takes the segment back and leaves the index where it was
stepBackKeepIndex(s) ==
    IF ~s.animationPaused \/ ~s.animationRunning THEN s
    ELSE IF Len(s.animationDrawnSegments) = 0 THEN s
    ELSE LET entry == Last(s.animationDrawnSegments)
             s1 == [s EXCEPT !.animationDrawnSegments = Front(@)]
             s2 == IF s1.animationLayer.key # "null"
                   THEN SetAnimPaths(s1, RemoveLast(AnimPaths(s1), entry.polyline))
                   ELSE s1
             d == FSub(s2.animationRunningDistance, entry.distance)
             s3 == [s2 EXCEPT !.animationRunningDistance = IF d < 0 THEN 0 ELSE d,
                              !.ev.undo = @ + 1, !.run.back = TRUE]
         IN  _fireProgress(s3)

\* stepBack (map.js 475-500)
stepBack(s) ==
    IF ~s.animationPaused \/ ~s.animationRunning THEN s
    ELSE IF Len(s.animationDrawnSegments) = 0 THEN s
    ELSE LET entry == Last(s.animationDrawnSegments)
             s1 == [s EXCEPT !.animationDrawnSegments = Front(@)]
             s2 == IF s1.animationLayer.key # "null"
                   THEN SetAnimPaths(s1, RemoveLast(AnimPaths(s1), entry.polyline))
                   ELSE s1
             d == FSub(s2.animationRunningDistance, entry.distance)
             s3 == [s2 EXCEPT !.animationCurrentIdx = @ - 1,
                              !.animationRunningDistance = IF d < 0 THEN 0 ELSE d,
                              !.ev.undo = @ + 1, !.run.back = TRUE]
         IN  _fireProgress(s3)

\* stepForward that finishes the animation when it draws the last segment
stepForwardCompleting(s) ==
    IF ~s.animationPaused \/ ~s.animationRunning THEN s
    ELSE IF ~_hasMoreSegments(s) THEN s
    ELSE LET s1 == _fireProgress(_drawOneSegment(s))
         IN  IF _hasMoreSegments(s1) THEN s1
             ELSE RunCallback([s1 EXCEPT !.animationRunning = FALSE],
                              s1.animationOnComplete)

\* stepForward that does not ask whether the animation is paused
stepForwardWhileRunning(s) ==
    IF ~_hasMoreSegments(s) THEN s
    ELSE _fireProgress(_drawOneSegment(s))

\* stepForward (map.js 502-510)
stepForward(s) ==
    IF ~s.animationPaused \/ ~s.animationRunning THEN s
    ELSE IF ~_hasMoreSegments(s) THEN s
    ELSE _fireProgress(_drawOneSegment(s))

\* the closure a new start creates
FreeClosure(s) == CHOOSE c \in FreeClosures(s) : \A d \in FreeClosures(s) : c <= d

\* the flattening loop of addRichLayerAnimated (map.js 630-635)
RideSegments(ride) == [i \in 1..(Len(ride.points) - 1) |-> [ride |-> ride, idx |-> i]]
RECURSIVE FlattenSegments(_)
FlattenSegments(ridesData) ==
    IF ridesData = <<>> THEN <<>>
    ELSE FlattenSegments(Front(ridesData)) \o RideSegments(Last(ridesData))

\* addRichLayerAnimated (map.js 611-696)
addRichLayerAnimated(s, activityType, ridesData, onComplete) ==
    LET s1 == EnsureLayer(s, activityType)
        segments == FlattenSegments(ridesData)
    IN  IF Len(segments) = 0 THEN RunCallback(s1, onComplete)
        ELSE LET c == FreeClosure(s1)
                 s2 == [s1 EXCEPT
                          !.animationMode = "rich",
                          !.animationSegments = [null |-> FALSE, list |-> segments],
                          !.animationCurrentIdx = 0,
                          !.animationRunningDistance = 0,
                          !.animationDrawnSegments = <<>>,
                          !.animationLayer = [key |-> activityType, attached |-> TRUE,
                                              paths |-> <<>>],
                          !.animationFirstTimestamp = segments[1].ride.points[1].tst,
                          !.animationDelayMs = _calcDelay(Len(segments)),
                          !.animationOnComplete = onComplete,
                          !.animationActivityType = activityType,
                          !.animationRunning = TRUE,
                          !.animationPaused = FALSE,
                          !.closures[c] = [mode |-> "rich", len |-> Len(segments)],
                          !.animCur = c,
                          !.ev.started = TRUE,
                          !.ev.overlap = (s1.timers # {}),
                          !.run = NewRun(s1.timers # {})]
             IN  drawNext(s2, c)

\* addBasicLayerAnimated (map.js 698-821)
addBasicLayerAnimated(s, activityType, points, onComplete) ==
    LET s1 == EnsureLayer(s, activityType)
    IN  IF Len(points) = 0 THEN RunCallback(s1, onComplete)
        ELSE LET c == FreeClosure(s1)
                 s2 == [s1 EXCEPT
                          !.animationMode = "basic",
                          !.animationSegments = [null |-> FALSE, list |-> points],
                          !.animationCurrentIdx = 1,
                          !.animationRunningDistance = 0,
                          !.animationDrawnSegments = <<>>,
                          !.animationLayer = [key |-> activityType, attached |-> TRUE,
                                              paths |-> <<>>],
                          !.animationFirstTimestamp = points[1].tst,
                          !.animationDelayMs = _calcDelay(Len(points)),
                          !.animationOnComplete = onComplete,
                          !.animationActivityType = activityType,
                          !.animationRunning = TRUE,
                          !.animationPaused = FALSE,
                          !.closures[c] = [mode |-> "basic", len |-> Len(points)],
                          !.animCur = c,
                          !.ev.started = TRUE,
                          !.ev.overlap = (s1.timers # {}),
                          !.run = NewRun(s1.timers # {})]
             IN  drawNext(s2, c)

\* ------------------------------------------------ the recorder (backend)
\* The session the backend keeps: it exists (has), is held in memory
\* (active), is more than STALE_SESSION_THRESHOLD_DAYS old (stale), and
\* covers the recorded points lo+1 .. hi.  Points are recorded in timestamp
\* order, one per second of the model.
NoSession == [has |-> FALSE, active |-> FALSE, stale |-> FALSE, lo |-> 0, hi |-> 0]

\* stats of the session: a single point is one ride of type other (no
\* movement yet), two or more points make one car ride
SessionRide(n) == IF n >= 2 THEN "car" ELSE IF n = 1 THEN "other" ELSE "none"
SessionStats(n) ==
    [count  |-> [t \in ActivityTypes |-> IF t = SessionRide(n) THEN 1 ELSE 0],
     points |-> [t \in ActivityTypes |-> IF t = SessionRide(n) THEN n ELSE 0]]

\* session start: {reset: true} and a start with no session in memory and no
\* resume begin a session at the newest point; {resume: true} and a start
\* while a session is in memory continue it
ServeStart(sv, intent) ==
    IF intent = "reset" \/ (intent # "resume" /\ ~sv.active) \/ ~sv.has
    THEN [has |-> TRUE, active |-> TRUE, stale |-> FALSE, lo |-> sv.hi, hi |-> sv.hi]
    ELSE [sv EXCEPT !.active = TRUE]

\* the backend's state after request r
Serve(sv, r) == IF r.kind = "start" THEN ServeStart(sv, r.intent) ELSE sv

\* the response to request r, from the state the request left
Respond(sv, r) ==
    IF r.kind = "status"
    THEN [r EXCEPT !.handled = TRUE, !.ok = TRUE, !.has_session = sv.has,
                   !.is_active = sv.active, !.is_stale = sv.stale,
                   !.start = sv.lo, !.lo = sv.lo, !.hi = sv.hi]
    ELSE IF r.kind = "poll"
    THEN [r EXCEPT !.handled = TRUE, !.ok = sv.active, !.start = sv.lo,
                   !.lo = Max(r.wm, sv.lo), !.hi = sv.hi]
    ELSE [r EXCEPT !.handled = TRUE, !.ok = sv.has, !.start = sv.lo,
                   !.lo = sv.lo, !.hi = sv.hi]

\* per-activity-type track of the datetime range: rich rides for car, a flat
\* point list for the rest; a single point for bike, nothing for other
TrackMode(type) == IF type \in {"car", "other"} THEN "rich" ELSE "basic"
TrackRides(type) ==
    IF type = "car"
    THEN <<[ride_number |-> 1, points |-> PtSeq(1, 2)]>>
         \o (IF MaxPts > 2 THEN <<[ride_number |-> 2, points |-> PtSeq(2, MaxPts)]>>
             ELSE <<>>)
    ELSE <<[ride_number |-> 1, points |-> PtSeq(1, 1)]>>
TrackPoints(type) == IF type = "bike" THEN PtSeq(1, 1) ELSE PtSeq(1, MaxPts)
TrackSegments(type) ==
    IF TrackMode(type) = "rich" THEN Len(FlattenSegments(TrackRides(type)))
    ELSE Len(TrackPoints(type)) - 1

\* ------------------------------------------- app.js: datetime tracking
TrackTypes == ActivityTypes \cup {"all"}

\* the request of loadLayerAnimated / loadLayer (app.js 466, 444); the
\* tracks of the chosen range do not change while the page is open
TrackFetch(type, animate) ==
    [Fetch("track") EXCEPT !.type = type, !.animate = animate,
                           !.handled = TRUE, !.ok = TRUE]

\* startTracking (app.js 376-421)
startTracking(s, activityType) ==
    LET s1 == clearAllLayers(stopAnimation(s))
        s2 == [s1 EXCEPT !.activeLayers = {},
                         !.startTrackingBtnDisabled = TRUE,
                         !.onAnimationProgress = "tracking"]
    IN  fetch(s2, TrackFetch(activityType, TRUE))

\* the response handler of loadLayerAnimated (app.js 468-479)
loadLayerAnimatedThen(s, r) ==
    IF ~r.ok THEN s
    ELSE IF TrackMode(r.type) = "rich"
    THEN addRichLayerAnimated(s, r.type, TrackRides(r.type),
             [kind |-> "tracking", type |-> r.type, tst |-> 0, then |-> "none"])
    ELSE addBasicLayerAnimated(s, r.type, TrackPoints(r.type),
             [kind |-> "tracking", type |-> r.type, tst |-> 0, then |-> "none"])

\* the response handler of loadLayer (app.js 446-459), called without callback
loadLayerThen(s, r) ==
    IF ~r.ok THEN s ELSE addLayerInstant(s, r.type, TrackSegments(r.type))

\* detectActivities (app.js 175-203)
detectActivities(s) ==
    fetch([s EXCEPT !.dom.detectBtnDisabled = TRUE, !.dom.activityControls = FALSE],
          [Fetch("detect") EXCEPT !.handled = TRUE, !.ok = TRUE])

\* the response handler of detectActivities with showActivityControls
\* (app.js 205-224, 287-314)
detectActivitiesThen(s, r) ==
    LET s1 == [s EXCEPT !.dom.detectBtnDisabled = FALSE]
    IN  IF ~r.ok THEN s1
        ELSE [s1 EXCEPT !.detectionData = TRUE, !.dom.activityControls = TRUE,
                        !.startTrackingBtnDisabled = FALSE]

\* -------------------------------------------- app.js: session lifecycle
ResetRideBookkeeping(s) ==
    [s EXCEPT !.lastDrawnTimestamp = 0, !.liveRideCounts = ZeroCounts,
              !.liveRidePoints = ZeroCounts, !.liveRidesData = ZeroCounts]

SessionData(r) ==
    [set |-> TRUE, start_timestamp |-> r.start, total_points |-> r.hi - r.start]

\* checkLiveStatus (app.js 609-611)
checkLiveStatus(s) == fetch(s, Fetch("status"))

\* showStartLiveButton (app.js 648-661)
showStartLiveButton(s) ==
    [s EXCEPT !.dom.liveStartShown = TRUE, !.dom.liveResetShown = FALSE]

\* loadLiveTrack (app.js 1603-1613)
loadLiveTrack(s, animate, then) ==
    fetch(s, [Fetch("liveTrack") EXCEPT !.animate = animate, !.then = then])

\* joinLiveSession that replays the track whatever was shown before
joinLiveSessionAlwaysAnimates(s) ==
    LET s1 == [s EXCEPT !.dom.liveStartShown = FALSE, !.dom.liveResetShown = TRUE]
    IN  fetch(ResetRideBookkeeping(s1),
              [Fetch("start") EXCEPT !.intent = "join", !.animate = TRUE,
                                    !.before = CachedSession(s)])

\* joinLiveSession (app.js 705-731)
joinLiveSession(s) ==
    LET s1 == [s EXCEPT !.dom.liveStartShown = FALSE, !.dom.liveResetShown = TRUE]
    IN  fetch(ResetRideBookkeeping(s1),
              [Fetch("start") EXCEPT !.intent = "join", !.animate = ~s.liveAnimationShown,
                                    !.before = CachedSession(s)])

\* resumeLiveSession (app.js 768-784)
resumeLiveSession(s) ==
    fetch(ResetRideBookkeeping([s EXCEPT !.dom.liveStartDisabled = TRUE]),
          [Fetch("start") EXCEPT !.intent = "resume", !.before = CachedSession(s)])

\* startLiveMode (app.js 932-963)
startLiveMode(s) ==
    LET s1 == [s EXCEPT !.dom.liveStartDisabled = TRUE]
        s2 == clearActivityLayer(clearActivityLayer(clearLiveLayer(s1), "car"), "bike")
        s3 == [ResetRideBookkeeping(s2) EXCEPT !.liveAnimationShown = FALSE,
                                               !.env.replayed = FALSE]
    IN  fetch(s3, [Fetch("start") EXCEPT !.intent = "fresh", !.before = CachedSession(s)])

\* resetLiveMode (app.js 1367-1416), after the confirm dialog
resetLiveMode(s) ==
    LET s1 == stopLivePolling(stopAnimation(s))
        s2 == clearActivityLayer(clearActivityLayer(clearActivityLayer(
                  clearLiveLayer(s1), "car"), "bike"), "other")
        s3 == [ResetRideBookkeeping(s2) EXCEPT !.liveAnimationShown = FALSE,
                                               !.env.replayed = FALSE]
        s4 == [resetHistoryState(s3) EXCEPT !.dom.liveResetDisabled = TRUE]
    IN  fetch(s4, [Fetch("start") EXCEPT !.intent = "reset", !.before = CachedSession(s)])

\* the response handlers of the session starts that start polling before
\* they look at the success flag
startThenPollsFirst(s, r) ==
    LET s0 == IF r.intent \in {"resume", "fresh"}
              THEN [s EXCEPT !.dom.liveStartDisabled = FALSE]
              ELSE IF r.intent = "reset"
              THEN [s EXCEPT !.dom.liveResetDisabled = FALSE]
              ELSE s
    IN  IF ~r.ok
        THEN IF r.intent \in {"join", "resume"}
             THEN showStartLiveButton(startLivePolling(s0))
             ELSE startLivePolling(s0)
        ELSE LET s1 == [s0 EXCEPT !.liveData = SessionData(r)]
                 s2 == IF r.intent \in {"resume", "fresh"}
                       THEN [s1 EXCEPT !.dom.liveStartShown = FALSE,
                                       !.dom.liveResetShown = TRUE]
                       ELSE s1
             IN  IF r.intent \in {"fresh", "reset"} THEN startLivePolling(s2)
                 ELSE IF r.hi - r.start > 0
                 THEN IF r.intent = "resume" \/ r.animate
                      THEN loadLiveTrack(s2, TRUE, "shown")
                      ELSE loadLiveTrack(s2, FALSE, "poll")
                 ELSE startLivePolling(s2)

\* the response handlers of the four session starts
\* (app.js 733-761, 786-820, 965-992, 1418-1437)
startThen(s, r) ==
    LET s0 == IF r.intent \in {"resume", "fresh"}
              THEN [s EXCEPT !.dom.liveStartDisabled = FALSE]
              ELSE IF r.intent = "reset"
              THEN [s EXCEPT !.dom.liveResetDisabled = FALSE]
              ELSE s
    IN  IF ~r.ok
        THEN IF r.intent \in {"join", "resume"} THEN showStartLiveButton(s0) ELSE s0
        ELSE LET s1 == [s0 EXCEPT !.liveData = SessionData(r)]
                 s2 == IF r.intent \in {"resume", "fresh"}
                       THEN [s1 EXCEPT !.dom.liveStartShown = FALSE,
                                       !.dom.liveResetShown = TRUE]
                       ELSE s1
             IN  IF r.intent \in {"fresh", "reset"} THEN startLivePolling(s2)
                 ELSE IF r.hi - r.start > 0
                 THEN IF r.intent = "resume" \/ r.animate
                      THEN loadLiveTrack(s2, TRUE, "shown")
                      ELSE loadLiveTrack(s2, FALSE, "poll")
                 ELSE startLivePolling(s2)

\* the catch handlers of the four session starts
\* (app.js 762-765, 821-826, 993-997, 1438-1442)
startCatch(s, r) ==
    IF r.intent = "join" THEN showStartLiveButton(s)
    ELSE IF r.intent = "resume"
    THEN showStartLiveButton([s EXCEPT !.dom.liveStartDisabled = FALSE])
    ELSE IF r.intent = "fresh" THEN [s EXCEPT !.dom.liveStartDisabled = FALSE]
    ELSE [s EXCEPT !.dom.liveResetDisabled = FALSE]

\* the response handler of checkLiveStatus whose dialogs answer Cancel with a
\* reset of the session
checkLiveStatusThenResets(s, r, confirm) ==
    IF ~r.ok \/ ~r.has_session THEN showStartLiveButton(s)
    ELSE IF r.is_active THEN joinLiveSession(s)
    ELSE IF confirm THEN resumeLiveSession(s)
    ELSE resetLiveMode(s)

\* the response handler of checkLiveStatus with the two confirm dialogs
\* (app.js 613-641, 674-703)
checkLiveStatusThen(s, r, confirm) ==
    IF ~r.ok \/ ~r.has_session THEN showStartLiveButton(s)
    ELSE IF r.is_active THEN joinLiveSession(s)
    ELSE IF confirm THEN resumeLiveSession(s)
    ELSE startLiveMode(s)

\* the response handler of loadLiveTrack (app.js 1615-1653)
loadLiveTrackThen(s, r) ==
    LET points == PtSeq(r.lo + 1, r.hi)
    IN  IF ~r.ok THEN loadLiveTrackDone(s, r.then)
        ELSE IF Len(points) > 0
        THEN LET s1 == initializeHistoryFromPoints(s, points)
             IN  IF r.animate
                 THEN addBasicLayerAnimated(
                          [s1 EXCEPT !.onAnimationProgress = "live"], "live", points,
                          [kind |-> "live", type |-> "live",
                           tst |-> Last(points).tst, then |-> r.then])
                 ELSE loadLiveTrackDone(
                          updateHistoryPanel(
                              [drawLiveTrackInstant(s1, points) EXCEPT
                                  !.lastDrawnTimestamp = Last(points).tst]),
                          r.then)
        ELSE loadLiveTrackDone(s, r.then)

\* the catch handler of loadLiveTrack (app.js 1654-1657)
loadLiveTrackCatch(s, r) == loadLiveTrackDone(s, r.then)

\* loadLayer for every active layer (app.js 857-861)
RECURSIVE loadLayers(_, _)
loadLayers(s, types) ==
    IF types = {} THEN s
    ELSE LET type == CHOOSE x \in types : TRUE
         IN  loadLayers(fetch(s, TrackFetch(type, FALSE)), types \ {type})

\* switchToDateTimeMode (app.js 829-862)
switchToDateTimeMode(s) ==
    IF s.currentMode = "datetime" THEN s
    ELSE LET s1 == stopLivePolling([s EXCEPT !.currentMode = "datetime"])
             s2 == clearAllLayers(resetHistoryState(stopAnimation(s1)))
         IN  IF s2.activeLayers # {} /\ s2.detectionData
             THEN loadLayers(s2, s2.activeLayers)
             ELSE s2

\* switchToLiveMode (app.js 864-892)
switchToLiveMode(s) ==
    IF s.currentMode = "live" THEN s
    ELSE LET s1 == stopAnimation([s EXCEPT !.currentMode = "live"])
         IN  checkLiveStatus(clearAllLayers(resetHistoryState(s1)))

\* ------------------------------------------ app.js: the poll response
\* refreshLiveActivityLayers (app.js 1244-1313): the synchronous part
RECURSIVE RefreshTypes(_, _)
RefreshTypes(s, types) ==
    IF types = <<>> THEN s
    ELSE LET t == Head(types)
             s1 == IF s.liveRideCounts[t] > 0
                   THEN fetch(s, [Fetch("refresh") EXCEPT !.type = t])
                   ELSE [s EXCEPT !.liveRidesData[t] = 0]
         IN  RefreshTypes(s1, Tail(types))
refreshLiveActivityLayers(s) == RefreshTypes(s, <<"car", "bike", "other">>)

\* the response handlers of refreshLiveActivityLayers (app.js 1252-1261):
\* the session's points as the rides of the type
refreshThen(s, r) ==
    LET stats == SessionStats(r.hi - r.start)
    IN  IF r.ok /\ stats.count[r.type] > 0
        THEN addLayerInstant(
                 clearActivityLayer([s EXCEPT !.liveRidesData[r.type] = stats.count[r.type]],
                                    r.type),
                 r.type, stats.points[r.type] - 1)
        ELSE s

\* the response handler of pollLiveData that keeps the points of a response
\* out of the log while the user is scrubbing
pollLiveDataThenLiveOnly(s, r) ==
    LET s1 == [s EXCEPT !.pollInProgress = FALSE, !.ev.stale = r.stale]
        points_to_draw == PtSeq(r.lo + 1, r.hi)
    IN  IF ~r.ok THEN s1
        ELSE LET s2 == [s1 EXCEPT !.liveData =
                           [@ EXCEPT !.set = TRUE, !.total_points = r.hi - r.start]]
             IN  updateHistoryPanel(
                     IF Len(points_to_draw) > 0 /\ ~s2.historyModeActive
                     THEN addPointsToHistory(
                              [appendLivePoints(s2, points_to_draw) EXCEPT
                                  !.lastDrawnTimestamp = Last(points_to_draw).tst],
                              points_to_draw)
                     ELSE s2)

\* the response handler of pollLiveData that compares the ride counts and
\* not the point counts
pollLiveDataThenCountsOnly(s, r) ==
    LET s1 == [s EXCEPT !.pollInProgress = FALSE, !.ev.stale = r.stale]
        stats == SessionStats(r.hi - r.start)
        points_to_draw == PtSeq(r.lo + 1, r.hi)
    IN  IF ~r.ok THEN s1
        ELSE LET s2 == [s1 EXCEPT !.liveData =
                           [@ EXCEPT !.set = TRUE, !.total_points = r.hi - r.start]]
                 ridesChanged == stats.count # s2.liveRideCounts
                 s3 == IF ridesChanged
                       THEN refreshLiveActivityLayers(
                                [s2 EXCEPT !.liveRideCounts = stats.count,
                                           !.liveRidePoints = stats.points])
                       ELSE s2
             IN  updateHistoryPanel(
                     IF Len(points_to_draw) > 0
                     THEN LET s4 == IF ~s3.historyModeActive
                                    THEN appendLivePoints(s3, points_to_draw)
                                    ELSE s3
                          IN  addPointsToHistory(
                                  [s4 EXCEPT !.lastDrawnTimestamp = Last(points_to_draw).tst],
                                  points_to_draw)
                     ELSE s3)

\* the response handler of pollLiveData that releases the single-flight flag
\* on success only
pollLiveDataThenFlagOnSuccess(s, r) ==
    LET s1 == [s EXCEPT !.ev.stale = r.stale]
        stats == SessionStats(r.hi - r.start)
        points_to_draw == PtSeq(r.lo + 1, r.hi)
    IN  IF ~r.ok THEN s1
        ELSE LET s2 == [s1 EXCEPT !.pollInProgress = FALSE,
                                  !.liveData =
                           [@ EXCEPT !.set = TRUE, !.total_points = r.hi - r.start]]
                 ridesChanged == \/ stats.count # s2.liveRideCounts
                                 \/ stats.points # s2.liveRidePoints
                 s3 == IF ridesChanged
                       THEN refreshLiveActivityLayers(
                                [s2 EXCEPT !.liveRideCounts = stats.count,
                                           !.liveRidePoints = stats.points])
                       ELSE s2
             IN  updateHistoryPanel(
                     IF Len(points_to_draw) > 0
                     THEN LET s4 == IF ~s3.historyModeActive
                                    THEN appendLivePoints(s3, points_to_draw)
                                    ELSE s3
                          IN  addPointsToHistory(
                                  [s4 EXCEPT !.lastDrawnTimestamp = Last(points_to_draw).tst],
                                  points_to_draw)
                     ELSE s3)

\* the response handler of pollLiveData (app.js 1178-1237)
pollLiveDataThen(s, r) ==
    LET s1 == [s EXCEPT !.pollInProgress = FALSE, !.ev.stale = r.stale]
        stats == SessionStats(r.hi - r.start)
        points_to_draw == PtSeq(r.lo + 1, r.hi)
    IN  IF ~r.ok THEN s1
        ELSE LET s2 == [s1 EXCEPT !.liveData =
                           [@ EXCEPT !.set = TRUE, !.total_points = r.hi - r.start]]
                 ridesChanged == \/ stats.count # s2.liveRideCounts
                                 \/ stats.points # s2.liveRidePoints
                 s3 == IF ridesChanged
                       THEN refreshLiveActivityLayers(
                                [s2 EXCEPT !.liveRideCounts = stats.count,
                                           !.liveRidePoints = stats.points])
                       ELSE s2
             IN  updateHistoryPanel(
                     IF Len(points_to_draw) > 0
                     THEN LET s4 == IF ~s3.historyModeActive
                                    THEN appendLivePoints(s3, points_to_draw)
                                    ELSE s3
                          IN  addPointsToHistory(
                                  [s4 EXCEPT !.lastDrawnTimestamp = Last(points_to_draw).tst],
                                  points_to_draw)
                     ELSE s3)

\* the catch handler of pollLiveData that leaves the single-flight flag set
pollLiveDataCatchKeepsFlag(s, r) == [s EXCEPT !.ev.stale = r.stale]

\* the catch handler of pollLiveData (app.js 1238-1241)
pollLiveDataCatch(s, r) == [s EXCEPT !.pollInProgress = FALSE, !.ev.stale = r.stale]

\* ------------------------------------------------------------ the page
\* One task of the event loop ran to its end and left the state s.  MaxNet
\* bounds the fetches in flight; a closure nothing refers to any more is
\* forgotten.
Apply(s) ==
    /\ Cardinality(s.net) <= MaxNet
    /\ animationTimer' = s.animationTimer
    /\ animationPaused' = s.animationPaused
    /\ animationResumeFunc' = s.animationResumeFunc
    /\ animationRunning' = s.animationRunning
    /\ animationDrawnSegments' = s.animationDrawnSegments
    /\ animationCurrentIdx' = s.animationCurrentIdx
    /\ animationRunningDistance' = s.animationRunningDistance
    /\ animationLayer' = s.animationLayer
    /\ animationSegments' = s.animationSegments
    /\ animationFirstTimestamp' = s.animationFirstTimestamp
    /\ animationDelayMs' = s.animationDelayMs
    /\ animationMode' = s.animationMode
    /\ animationOnComplete' = s.animationOnComplete
    /\ animationActivityType' = s.animationActivityType
    /\ onAnimationProgress' = s.onAnimationProgress
    /\ activityLayers' = s.activityLayers
    /\ livePolyline' = s.livePolyline
    /\ historyPolyline' = s.historyPolyline
    /\ livePathsHidden' = s.livePathsHidden
    /\ currentMode' = s.currentMode
    /\ livePollingInterval' = s.livePollingInterval
    /\ liveData' = s.liveData
    /\ lastDrawnTimestamp' = s.lastDrawnTimestamp
    /\ liveRideCounts' = s.liveRideCounts
    /\ liveRidePoints' = s.liveRidePoints
    /\ liveRidesData' = s.liveRidesData
    /\ liveAnimationShown' = s.liveAnimationShown
    /\ pollInProgress' = s.pollInProgress
    /\ historyModeActive' = s.historyModeActive
    /\ historyViewIndex' = s.historyViewIndex
    /\ historyPoints' = s.historyPoints
    /\ historyCumulativeStats' = s.historyCumulativeStats
    /\ activeLayers' = s.activeLayers
    /\ startTrackingBtnDisabled' = s.startTrackingBtnDisabled
    /\ detectionData' = s.detectionData
    /\ dom' = s.dom
    /\ timers' = s.timers
    /\ closures' = [c \in ClosureIds |-> IF c \in LiveClosures(s) THEN s.closures[c] ELSE NoClosure]
    /\ pollTimers' = s.pollTimers
    /\ net' = s.net
    /\ server' = s.server
    /\ ev' = s.ev
    /\ env' = s.env
    /\ run' = s.run
    /\ animCur' = s.animCur

\* the state a task starts from
Task(op) == [St EXCEPT !.ev = Ev0(op), !.run.marks = <<>>, !.run.ops = 0,
                       !.run.peak = 0]

\* the engine state a stepBack is to restore
Mark == [some |-> TRUE, idx |-> animationCurrentIdx,
         dist |-> animationRunningDistance,
         drawn |-> Len(animationDrawnSegments),
         paths |-> Len(AnimPaths(St)), ops |-> run.ops]

\* a task that is a click on a panel button
CanClick == env.clicks < MaxClicks
Click(op) == [Task(op) EXCEPT !.env.clicks = @ + 1]

InitPage ==
    /\ animationTimer = 0
    /\ animationPaused = FALSE
    /\ animationResumeFunc = 0
    /\ animationRunning = FALSE
    /\ animationDrawnSegments = <<>>
    /\ animationCurrentIdx = 0
    /\ animationRunningDistance = 0
    /\ animationLayer = NoLayer
    /\ animationSegments = NullSegments
    /\ animationFirstTimestamp = 0
    /\ animationDelayMs = 50
    /\ animationMode = "null"
    /\ animationOnComplete = NoCallback
    /\ animationActivityType = "null"
    /\ onAnimationProgress = "null"
    /\ activityLayers = [k \in LayerKeys |-> AbsentLayer]
    /\ livePolyline = NoPolyline
    /\ historyPolyline = NoPolyline
    /\ livePathsHidden = FALSE
    /\ currentMode = "datetime"
    /\ livePollingInterval = 0
    /\ liveData = NoLiveData
    /\ lastDrawnTimestamp = 0
    /\ liveRideCounts = ZeroCounts
    /\ liveRidePoints = ZeroCounts
    /\ liveRidesData = ZeroCounts
    /\ liveAnimationShown = FALSE
    /\ pollInProgress = FALSE
    /\ historyModeActive = FALSE
    /\ historyViewIndex = -1
    /\ historyPoints = <<>>
    /\ historyCumulativeStats = <<>>
    /\ activeLayers = {}
    /\ startTrackingBtnDisabled = FALSE
    /\ detectionData = FALSE
    /\ dom = [detectBtnDisabled |-> FALSE, activityControls |-> FALSE,
              liveStartShown |-> FALSE, liveStartDisabled |-> FALSE,
              liveResetShown |-> FALSE, liveResetDisabled |-> FALSE,
              historyPanel |-> FALSE, historyBackDisabled |-> FALSE,
              historyFwdDisabled |-> FALSE, historyJumpShown |-> FALSE]
    /\ timers = {}
    /\ closures = [c \in ClosureIds |-> NoClosure]
    /\ pollTimers = {}
    /\ net = {}
    /\ ev = Ev0("init")
    /\ env = [clicks |-> 0, tracks |-> 0, faults |-> 0, restarts |-> 0,
              replayed |-> FALSE]
    /\ run = NewRun(FALSE)
    /\ animCur = 0

\* the page is loaded while the backend holds no session
Init == InitPage /\ server = NoSession

\* the page is loaded while another device is tracking: the backend holds an
\* active session with MaxTst points
TrackedSession ==
    [has |-> TRUE, active |-> TRUE, stale |-> FALSE, lo |-> 0, hi |-> MaxTst]
InitJoin == InitPage /\ server = TrackedSession

\* ------------------------------------------------------------ the user
\* click on #detect-btn
DetectActivities ==
    /\ currentMode = "datetime" /\ ~dom.detectBtnDisabled
    /\ Apply(detectActivities(Task("detectActivities")))

\* click on #start-tracking-btn with an activity selected
StartTracking ==
    /\ env.tracks < MaxTracks
    /\ currentMode = "datetime" /\ detectionData /\ dom.activityControls
    /\ ~startTrackingBtnDisabled
    /\ \E activityType \in TrackTypes :
           Apply(startTracking([Task("startTracking") EXCEPT !.env.tracks = @ + 1],
                               activityType))

\* click on #pause-play-btn, or the space bar (app.js 156, 162-164)
TogglePause == Apply(togglePause(Task("togglePause")))

\* click on #step-back-btn, or the left arrow (app.js 157, 165-167)
StepBack ==
    LET s == stepBack([St EXCEPT !.ev = Ev0("stepBack")])
    IN  Apply(IF s.ev.undo = 0 \/ run.marks = <<>>
              THEN [s EXCEPT !.run.marks = <<>>, !.run.ops = 0, !.run.peak = 0]
              ELSE [s EXCEPT !.ev.restored = [Last(run.marks) EXCEPT
                                                 !.ops = run.ops + 1 - @],
                             !.ev.peak = run.peak,
                             !.run.marks = Front(@),
                             !.run.ops = IF Len(run.marks) = 1 THEN 0 ELSE @ + 1,
                             !.run.peak = IF Len(run.marks) = 1 THEN 0 ELSE @])

\* click on #step-forward-btn, or the right arrow (app.js 158, 168-170)
StepForward ==
    LET s == stepForward([St EXCEPT !.ev = Ev0("stepForward")])
    IN  Apply(IF s.ev.draw = 0 \/ run.ops >= MaxOps
              THEN [s EXCEPT !.run.marks = <<>>, !.run.ops = 0, !.run.peak = 0]
              ELSE [s EXCEPT !.run.marks = Append(@, Mark),
                             !.run.ops = @ + 1,
                             !.run.peak = Max(@, s.animationRunningDistance)])

\* click on #mode-live (app.js 83-87)
SwitchToLiveMode ==
    /\ CanClick
    /\ Apply(switchToLiveMode(Click("switchToLiveMode")))

\* click on #mode-datetime (app.js 78-82)
SwitchToDateTimeMode ==
    /\ CanClick
    /\ Apply(switchToDateTimeMode(Click("switchToDateTimeMode")))

\* click on #live-start-btn (app.js 92-96)
StartLiveMode ==
    /\ CanClick
    /\ currentMode = "live" /\ dom.liveStartShown /\ ~dom.liveStartDisabled
    /\ Apply(startLiveMode(Click("startLiveMode")))

\* click on #live-reset-btn (app.js 97-101); the user answers the dialog
ResetLiveMode ==
    /\ CanClick
    /\ currentMode = "live" /\ dom.liveResetShown /\ ~dom.liveResetDisabled
    /\ \E confirm \in BOOLEAN :
           Apply(IF confirm THEN resetLiveMode(Click("resetLiveMode"))
                 ELSE Click("resetLiveMode"))

\* the deltas of the four navigation buttons of the history panel
\* (map.js 871-875)
BackDeltas == {-10, -1}
ForwardDeltas == {1, 10}

\* click on #history-back10, #history-back, #history-forward or
\* #history-forward10 (map.js 871-875)
NavigateHistory ==
    /\ CanClick
    /\ dom.historyPanel
    /\ \E delta \in BackDeltas \cup ForwardDeltas :
           /\ delta < 0 => ~dom.historyBackDisabled
           /\ delta > 0 => ~dom.historyFwdDisabled
           /\ Apply(navigateHistory(
                        [Click("navigateHistory") EXCEPT !.ev.delta = delta],
                        delta))

\* click on #history-live (map.js 873)
HandleHistoryJumpButton ==
    /\ CanClick
    /\ dom.historyPanel /\ dom.historyJumpShown
    /\ Apply(handleHistoryJumpButton(Click("handleHistoryJumpButton")))

\* ------------------------------------------------------------- timers
\* a pending setTimeout of the animation fires
TimerFires ==
    \E t \in timers :
        Apply(drawNext([Task("drawNext") EXCEPT !.timers = @ \ {t}], t.c))

\* an armed poll interval ticks
PollTick ==
    \E id \in pollTimers : Apply(pollLiveData(Task("pollTick")))

\* ------------------------------------------------------------ backend
\* the backend handles a request: the response is fixed from here on
ServerHandles ==
    \E r \in net :
        /\ ~r.handled
        /\ Apply([Task("serve") EXCEPT
                     !.server = Serve(server, r),
                     !.net = (@ \ {r}) \cup {Respond(Serve(server, r), r)}])

\* the phone reports a position
NewPoint ==
    /\ server.hi < MaxTst
    /\ Apply([Task("point") EXCEPT !.server.hi = @ + 1])

\* the phone reports a position while the history panel is in use
RecordPoint ==
    /\ server.hi < MaxLog
    /\ Apply([Task("point") EXCEPT !.server.hi = @ + 1])

\* the backend restarts: the session is on disk only, recent or stale
ServerRestart ==
    /\ server.active /\ env.restarts < MaxRestarts
    /\ \E stale \in BOOLEAN :
           Apply([Task("restart") EXCEPT !.server.active = FALSE,
                                         !.server.stale = stale,
                                         !.env.restarts = @ + 1])

\* ---------------------------------------------------------- responses
\* A handled fetch settles: with the response ("ok"), with a response that
\* says success: false ("fail"), or with a transport error ("error").
Outcomes == {"ok", "fail", "error"}
Settled(r, outcome) == IF outcome = "fail" THEN [r EXCEPT !.ok = FALSE] ELSE r
Arrives(kind, r, outcome) ==
    /\ r.kind = kind /\ r.handled
    /\ outcome # "ok" => env.faults < MaxFaults
Received(op, r, outcome) ==
    [Task(op) EXCEPT !.net = @ \ {r},
                     !.ev.outcome = outcome,
                     !.env.faults = IF outcome = "ok" THEN @ ELSE @ + 1]

\* a response that starts an animation needs a closure
StartsAnimation(r) ==
    \/ r.kind = "track" /\ r.animate
    \/ r.kind = "liveTrack" /\ r.animate /\ r.hi > r.lo

DetectResponse ==
    \E r \in net, outcome \in Outcomes :
        /\ Arrives("detect", r, outcome)
        /\ Apply(IF outcome = "error"
                 THEN [Received("detectCatch", r, outcome) EXCEPT !.dom.detectBtnDisabled = FALSE]
                 ELSE detectActivitiesThen(Received("detectThen", r, outcome), Settled(r, outcome)))

TrackResponse ==
    \E r \in net, outcome \in Outcomes :
        /\ Arrives("track", r, outcome)
        /\ outcome = "ok" /\ r.animate => FreeClosures(St) # {}
        /\ Apply(IF outcome = "error" THEN Received("trackCatch", r, outcome)
                 ELSE IF r.animate
                 THEN loadLayerAnimatedThen(Received("loadLayerAnimatedThen", r, outcome),
                                            Settled(r, outcome))
                 ELSE loadLayerThen(Received("loadLayerThen", r, outcome), Settled(r, outcome)))

StatusResponse ==
    \E r \in net, outcome \in Outcomes, confirm \in BOOLEAN :
        /\ Arrives("status", r, outcome)
        /\ Apply(IF outcome = "error"
                 THEN showStartLiveButton(Received("statusCatch", r, outcome))
                 ELSE checkLiveStatusThen(Received("checkLiveStatusThen", r, outcome),
                                          Settled(r, outcome), confirm))

StartResponse ==
    \E r \in net, outcome \in Outcomes :
        /\ Arrives("start", r, outcome)
        /\ Apply(IF outcome = "error" THEN startCatch(Received("startCatch", r, outcome), r)
                 ELSE startThen(Received("startThen", r, outcome), Settled(r, outcome)))

LiveTrackResponse ==
    \E r \in net, outcome \in Outcomes :
        /\ Arrives("liveTrack", r, outcome)
        /\ outcome = "ok" /\ StartsAnimation(r) /\ r.ok => FreeClosures(St) # {}
        /\ Apply(IF outcome = "error"
                 THEN loadLiveTrackCatch(Received("loadLiveTrackCatch", r, outcome), r)
                 ELSE loadLiveTrackThen(Received("loadLiveTrackThen", r, outcome),
                                        Settled(r, outcome)))

PollResponse ==
    \E r \in net, outcome \in Outcomes :
        /\ Arrives("poll", r, outcome)
        /\ Apply(IF outcome = "error"
                 THEN pollLiveDataCatch(Received("pollLiveDataCatch", r, outcome), r)
                 ELSE pollLiveDataThen(Received("pollLiveDataThen", r, outcome),
                                       Settled(r, outcome)))

RefreshResponse ==
    \E r \in net, outcome \in Outcomes :
        /\ Arrives("refresh", r, outcome)
        /\ Apply(IF outcome = "error" THEN Received("refreshCatch", r, outcome)
                 ELSE refreshThen(Received("refreshThen", r, outcome), Settled(r, outcome)))

Next ==
    \/ DetectActivities \/ StartTracking
    \/ TogglePause \/ StepBack \/ StepForward
    \/ SwitchToLiveMode \/ SwitchToDateTimeMode
    \/ StartLiveMode \/ ResetLiveMode
    \/ TimerFires \/ PollTick
    \/ ServerHandles \/ NewPoint \/ ServerRestart
    \/ DetectResponse \/ TrackResponse \/ StatusResponse \/ StartResponse
    \/ LiveTrackResponse \/ PollResponse \/ RefreshResponse
    \/ NavigateHistory \/ HandleHistoryJumpButton

Spec == Init /\ [][Next]_vars

\* The playback engine under the datetime panel: detection, tracking, the
\* playback controls and the animation timer.
NextPlayback ==
    \/ DetectActivities \/ StartTracking
    \/ TogglePause \/ StepBack \/ StepForward
    \/ TimerFires
    \/ DetectResponse \/ TrackResponse

SpecPlayback == Init /\ [][NextPlayback]_vars

\* The live session: the mode toggle, the session lifecycle, the poll loop,
\* the join animation and the backend.
NextLive ==
    \/ SwitchToLiveMode \/ SwitchToDateTimeMode
    \/ StartLiveMode \/ ResetLiveMode
    \/ TimerFires \/ PollTick
    \/ ServerHandles \/ NewPoint \/ ServerRestart
    \/ StatusResponse \/ StartResponse
    \/ LiveTrackResponse \/ PollResponse \/ RefreshResponse

SpecLive == Init /\ [][NextLive]_vars

\* The engine started directly on a track of S segments (S + 1 points), in
\* rich or in basic mode, and left to draw it: short tracks and tracks around
\* the length at which the total duration is capped.
DelaySegs == {1, 2, CapSegs - 1, CapSegs, MaxSegs}
DelayCallback == [kind |-> "tracking", type |-> "none", tst |-> 0, then |-> "none"]

AnimateRich ==
    \E S \in DelaySegs :
        /\ env.tracks = 0
        /\ Apply(addRichLayerAnimated(
                     [Task("addRichLayerAnimated") EXCEPT !.env.tracks = @ + 1],
                     "car", <<[ride_number |-> 1, points |-> PtSeq(1, S + 1)]>>,
                     [DelayCallback EXCEPT !.type = "car"]))

AnimateBasic ==
    \E S \in DelaySegs :
        /\ env.tracks = 0
        /\ Apply(addBasicLayerAnimated(
                     [Task("addBasicLayerAnimated") EXCEPT !.env.tracks = @ + 1],
                     "bike", PtSeq(1, S + 1),
                     [DelayCallback EXCEPT !.type = "bike"]))

NextDelay == AnimateRich \/ AnimateBasic \/ TimerFires

SpecDelay == Init /\ [][NextDelay]_vars

\* One animation from its start to its end: the engine started once on a
\* track of 1 to MaxRunSegs segments, in rich or in basic mode, with the
\* pause and step controls in the user's hands and never stopped.  A pending
\* timeout fires eventually.
RunSegs == 1..MaxRunSegs

PlayRich ==
    \E S \in RunSegs :
        /\ env.tracks = 0
        /\ Apply(addRichLayerAnimated(
                     [Task("addRichLayerAnimated") EXCEPT !.env.tracks = @ + 1],
                     "car", <<[ride_number |-> 1, points |-> PtSeq(1, S + 1)]>>,
                     [DelayCallback EXCEPT !.type = "car"]))

PlayBasic ==
    \E S \in RunSegs :
        /\ env.tracks = 0
        /\ Apply(addBasicLayerAnimated(
                     [Task("addBasicLayerAnimated") EXCEPT !.env.tracks = @ + 1],
                     "bike", PtSeq(1, S + 1),
                     [DelayCallback EXCEPT !.type = "bike"]))

NextRun == PlayRich \/ PlayBasic \/ TogglePause \/ StepBack \/ StepForward \/ TimerFires

\* The pending timeout fires.  In one animation a step of TimerFires is
\* recognised by what it leaves in the engine: the animation is not paused and
\* animationTimer holds a new handle or none (map.js 686-692); by
\* TimeoutFiredIsTimerFires exactly the steps of TimerFires are such steps.
TimeoutFired ==
    /\ timers # {}
    /\ animationPaused' = FALSE
    /\ animationTimer' \in (0..(MaxAnim + 2)) \ {animationTimer}
TimeoutFiredIsTimerFires == [][TimeoutFired <=> TimerFires]_vars

\* weak fairness of the timer: a timeout that stays pending fires
TimerFairness == WF_<<animationPaused, animationTimer>>(TimeoutFired)

SpecRun == Init /\ [][NextRun]_vars /\ TimerFairness

\* the live page opened on a session that another device started; no further
\* point is recorded
NextJoin ==
    \/ SwitchToLiveMode \/ SwitchToDateTimeMode
    \/ StartLiveMode \/ ResetLiveMode
    \/ TimerFires \/ PollTick
    \/ ServerHandles \/ ServerRestart
    \/ StatusResponse \/ StartResponse
    \/ LiveTrackResponse \/ PollResponse \/ RefreshResponse

SpecJoin == InitJoin /\ [][NextJoin]_vars

\* The poll loop of a joined session: the page opened on a session that
\* another device started, the mode toggle, the join with its replay, the
\* poll interval and the backend.  The interval ticks as long as it is armed,
\* the backend handles every request and every poll is answered.
NextPoll ==
    \/ SwitchToLiveMode \/ SwitchToDateTimeMode
    \/ TimerFires \/ PollTick
    \/ ServerHandles
    \/ StatusResponse \/ StartResponse
    \/ LiveTrackResponse \/ PollResponse \/ RefreshResponse

\* A response of any kind is delivered to its handler.
Delivered ==
    StatusResponse \/ StartResponse \/ LiveTrackResponse \/ PollResponse \/ RefreshResponse

\* weak fairness of the interval and of the backend: an armed interval
\* ticks, and a request is handled
TickFairness == WF_vars(PollTick)
ServerFairness == WF_vars(ServerHandles)

\* weak fairness of the transport, WF_vars(Delivered), with its enabling
\* condition written out: a response that was sent is delivered
ResponseFairness == []<>(\A r \in net : ~r.handled) \/ []<><<Delivered>>_vars

SpecPoll ==
    InitJoin /\ [][NextPoll]_vars /\ TickFairness /\ ServerFairness /\ ResponseFairness

\* The live session with the history panel: everything of the live session
\* and the navigation buttons of the scrub view.
NextScrub ==
    \/ SwitchToLiveMode \/ SwitchToDateTimeMode
    \/ StartLiveMode \/ ResetLiveMode
    \/ NavigateHistory \/ HandleHistoryJumpButton
    \/ TimerFires \/ PollTick
    \/ ServerHandles \/ RecordPoint
    \/ StatusResponse \/ StartResponse
    \/ LiveTrackResponse \/ PollResponse \/ RefreshResponse

SpecScrub == Init /\ [][NextScrub]_vars

\* ------------------------------------------------ the history log alone
\* The history functions of app.js called one after the other on logs of
\* any points: positions closer than the noise floor and farther apart,
\* timestamps in any order.
HistPositions == {0, 10, 30}
HistPoints == {[tst |-> t, pos |-> p] : t \in 1..MaxBatch, p \in HistPositions}
HistBatches == UNION {[1..n -> HistPoints] : n \in 0..MaxBatch}
SeekDeltas == {-10, -2, -1, 1, 2, 10}

\* addPointsToHistory(newPoints) (app.js 1701-1737)
AppendPoints ==
    \E newPoints \in HistBatches :
        /\ Len(historyPoints) + Len(newPoints) <= MaxHist
        /\ Apply(addPointsToHistory(Task("addPointsToHistory"), newPoints))

\* initializeHistoryFromPoints(points) (app.js 1977-2012)
InitializeFrom ==
    \E points \in HistBatches :
        Apply(initializeHistoryFromPoints(Task("initializeHistoryFromPoints"), points))

\* resetHistoryState() (app.js 1963-1975)
ResetHistory == Apply(resetHistoryState(Task("resetHistoryState")))

\* navigateHistory(delta) (app.js 1862-1901)
Seek ==
    \E delta \in SeekDeltas :
        Apply(navigateHistory([Task("navigateHistory") EXCEPT !.ev.delta = delta], delta))

\* handleHistoryJumpButton() (app.js 1929-1961)
JumpToEdge == Apply(handleHistoryJumpButton(Task("handleHistoryJumpButton")))

NextHistory == AppendPoints \/ InitializeFrom \/ ResetHistory \/ Seek \/ JumpToEdge

SpecHistory == Init /\ [][NextHistory]_vars

\* =================================================================
\* Properties of the playback engine (SpecPlayback)
\* =================================================================

\* the animation on the map started with no timer of an earlier one pending,
\* and no stepBack has taken a segment back
SingleRun == animCur # 0 /\ ~run.overlap /\ ~run.back
FirstIdx == IF animationMode = "rich" THEN 0 ELSE 1
Exhausted == ~_hasMoreSegments(St)

\* C5: after stopAnimation() the engine is Idle: no pending timer, no stored
\* continuation, an empty drawn list, index 0 and distance 0, until the next
\* start (animationSegments is null from a stop to the next start).
C5_StoppedIsIdle ==
    animationSegments.null =>
        /\ timers = {} /\ animationTimer = 0 /\ animationResumeFunc = 0
        /\ ~animationRunning /\ ~animationPaused
        /\ animationDrawnSegments = <<>>
        /\ animationCurrentIdx = 0 /\ animationRunningDistance = 0

\* C6: at most one timer chain is pending at any time: a start while an
\* earlier animation is Running or Paused first stops the earlier one.
C6_OneTimerChain == Cardinality(timers) <= 1

\* C7: in a single animation, whatever the interleaving of togglePause,
\* stepForward and timer firings, the segments are drawn in index order, none
\* skipped and none twice, and at completion the drawn list is the whole list.
C7_DrawnInOrder ==
    SingleRun =>
        /\ animationCurrentIdx = FirstIdx + Len(animationDrawnSegments)
        /\ \A k \in 1..Len(animationDrawnSegments) :
               /\ animationDrawnSegments[k].polyline.a = animCur
               /\ animationDrawnSegments[k].polyline.i = FirstIdx + k - 1
        /\ run.completes > 0 => animationCurrentIdx = Len(animationSegments.list)

\* a stepForward drew a segment of a single animation that a timer began
C7_Witness ==
    /\ SingleRun /\ ev.op = "stepForward" /\ ev.draw = 1
    /\ Len(animationDrawnSegments) >= 2

\* C8 as stated: while Paused, n stepForward calls followed by n stepBack
\* calls restore animationRunningDistance, animationCurrentIdx and the number
\* of rendered segments to their values before the sequence.
C8_RestoresExactly ==
    ev.restored.some =>
        /\ animationRunningDistance = ev.restored.dist
        /\ animationCurrentIdx = ev.restored.idx
        /\ Len(animationDrawnSegments) = ev.restored.drawn
        /\ Len(AnimPaths(St)) = ev.restored.paths

\* C8 amended: the index and the number of rendered segments are restored
\* exactly; the distance is restored up to the rounding of the additions and
\* subtractions made (half a unit in the last place of the largest distance
\* reached, for each) and is never negative.
C8_RestoresUpToRounding ==
    ev.restored.some =>
        /\ animationCurrentIdx = ev.restored.idx
        /\ Len(animationDrawnSegments) = ev.restored.drawn
        /\ Len(AnimPaths(St)) = ev.restored.paths
        /\ animationRunningDistance >= 0
        /\ 2 * Abs(animationRunningDistance - ev.restored.dist)
               <= ev.restored.ops * Ulp(ev.peak)

\* two stepForward calls were undone by two stepBack calls
C8_Witness ==
    /\ ev.op = "stepBack" /\ ev.restored.some /\ ev.restored.ops = 4
    /\ animationPaused /\ animationRunning

C10_CompletesOnce ==
    animationMode = "basic" =>
        /\ run.completes <= 1
        /\ run.completes = 1 => animationCurrentIdx = Len(animationSegments.list)

\* =================================================================
\* Properties of the live session (SpecLive)
\* =================================================================
PollsInFlight == {r \in net : r.kind = "poll"}

\* what a poll response merges into
LiveState == <<lastDrawnTimestamp, historyPoints, historyCumulativeStats,
               liveRideCounts, liveRidePoints, liveRidesData, liveData,
               livePolyline>>

\* C1: pollLiveData() called while pollInProgress is set sends no request and
\* leaves the watermark and all live state as they were.
C1_GuardedPoll ==
    [][(pollInProgress /\ ev'.op = "pollTick") =>
           /\ net' = net /\ pollInProgress'
           /\ LiveState' = LiveState]_vars

\* a tick of the interval found the earlier poll unanswered
C1_Witness ==
    /\ ev.op = "pollTick" /\ ev.skipped /\ ev.sent = 0
    /\ pollInProgress /\ PollsInFlight # {}

\* C2: in every reachable state at most one poll request is outstanding, also
\* when stopLivePolling is followed by startLivePolling while a response is
\* pending.
C2_OnePollInFlight == Cardinality(PollsInFlight) <= 1

\* the tasks that begin, join, resume or reset a session
SessionStarts == {"startLiveMode", "resetLiveMode", "checkLiveStatusThen"}

\* C3: within one live session lastDrawnTimestamp never decreases, whatever
\* the interleaving of poll responses, track loading and animation
\* completion (a task that begins, joins, resumes or resets a session opens
\* a new one).
C3_WatermarkMonotone ==
    [][ev'.op \notin SessionStarts => lastDrawnTimestamp' >= lastDrawnTimestamp]_vars

\* C4: after stopLivePolling() returns, the response of a poll sent before the
\* stop changes neither the watermark, nor the history log and its stats,
\* nor the ride counters, nor the cached snapshot.
C4_StaleResponseDropped ==
    [][(ev'.op \in {"pollLiveDataThen", "pollLiveDataCatch"} /\ ev'.stale) =>
           LiveState' = LiveState]_vars

\* =================================================================
\* Properties of the history log and its navigation (SpecScrub)
\* =================================================================

\* C11: the log and its stats have the same length, and entry i of the stats
\* carries the tst of point i and the point count i + 1 (0-based i), after
\* any sequence of poll appends, initialisations, resets and navigation.
C11_LogAligned ==
    /\ Len(historyCumulativeStats) = Len(historyPoints)
    /\ \A i \in 1..Len(historyPoints) :
           /\ historyCumulativeStats[i].tst = historyPoints[i].tst
           /\ historyCumulativeStats[i].pointCount = i

\* a poll response appended to a log the user is scrubbing
C11_Witness ==
    /\ ev.op = "pollLiveDataThen" /\ historyModeActive
    /\ Len(historyPoints) = MaxLog

\* C12: while scrub mode is active the cursor is an index of the log, and
\* while it is not the cursor is -1; no navigation, poll append,
\* re-initialisation or reset takes the cursor out of range.
C12_CursorInRange ==
    IF historyModeActive
    THEN 0 <= historyViewIndex /\ historyViewIndex <= Len(historyPoints) - 1
    ELSE historyViewIndex = -1

\* a step of ten back from inside the log stopped at the first point
C12_Witness ==
    /\ ev.op = "navigateHistory" /\ ev.delta = -10
    /\ historyModeActive /\ historyViewIndex = 0
    /\ Len(historyPoints) = MaxLog

\* the cursor as navigateHistory sees it: the tail when not scrubbing
Anchor == IF historyModeActive THEN historyViewIndex ELSE Len(historyPoints) - 1
Cursor == <<historyModeActive, historyViewIndex>>
ScrubView == <<historyPolyline, livePathsHidden>>

\* C13: navigateHistory(delta) on a non-empty log anchors at the tail when
\* not scrubbing and adds delta; it leaves scrub mode exactly when the
\* unclamped target is beyond the last index, stops at 0 when the target is
\* negative, and otherwise stays in scrub mode at the target, the tail
\* included.  On an empty log it changes nothing.
C13_SeekContract ==
    [][ev'.op = "navigateHistory" =>
          LET last == Len(historyPoints) - 1
              target == Anchor + ev'.delta
          IN  /\ last < 0 =>
                     /\ Cursor' = Cursor /\ ScrubView' = ScrubView
                     /\ historyPoints' = historyPoints
              /\ (last >= 0 /\ target > last) =>
                     ~historyModeActive' /\ historyViewIndex' = -1
              /\ (last >= 0 /\ target <= last) =>
                     /\ historyModeActive'
                     /\ historyViewIndex' = Max(target, 0)]_vars

\* a step forward from inside the log ended on the tail, still scrubbing
C13_Witness ==
    /\ ev.op = "navigateHistory" /\ ev.delta = 1
    /\ historyModeActive /\ historyViewIndex = Len(historyPoints) - 1
    /\ Len(historyPoints) >= 3

\* The points the live path rendering goes through: the vertices of the live
\* polyline and the two ends of every animated segment of the live layer
\* (consecutive points of the track are one second apart).
LiveLayerPaths ==
    IF activityLayers["live"].present THEN activityLayers["live"].paths ELSE <<>>
RenderedTsts ==
    {livePolyline.path[k] : k \in 1..Len(livePolyline.path)}
    \cup UNION {{LiveLayerPaths[k].t - 1, LiveLayerPaths[k].t} :
                    k \in {j \in 1..Len(LiveLayerPaths) : LiveLayerPaths[j].a > 0}}

\* C14: after exitHistoryMode (through an overshooting seek or the jump
\* button) the live paths are back on the map and go through every point of
\* the history log, the points appended during scrub mode included.
C14_ExitShowsWholeLog ==
    ev.exited =>
        /\ ~livePathsHidden /\ ~historyPolyline.present
        /\ \A i \in 1..Len(historyPoints) : historyPoints[i].tst \in RenderedTsts

\* C15: a successful poll response that arrives during scrub mode appends
\* all the points it returns to the log and to the stats and moves the
\* watermark to the last returned tst; the cursor stays where it is.
C15_ScrubPollAppends ==
    [][\A r \in net :
          (/\ r \notin net' /\ r.kind = "poll" /\ r.ok
           /\ ev'.op = "pollLiveDataThen" /\ ev'.outcome = "ok"
           /\ historyModeActive)
          => LET returned == PtSeq(r.lo + 1, r.hi)
             IN  /\ historyPoints' = historyPoints \o returned
                 /\ Len(historyCumulativeStats') =
                        Len(historyCumulativeStats) + Len(returned)
                 /\ SubSeq(historyCumulativeStats', 1, Len(historyCumulativeStats))
                        = historyCumulativeStats
                 /\ lastDrawnTimestamp' =
                        IF returned = <<>> THEN lastDrawnTimestamp
                        ELSE Last(returned).tst
                 /\ Cursor' = Cursor]_vars

\* a poll response brought a point while the user looked at the first one
C15_Witness ==
    /\ ev.op = "pollLiveDataThen" /\ ev.outcome = "ok"
    /\ historyModeActive /\ historyViewIndex = 0
    /\ Len(historyPoints) = MaxLog /\ lastDrawnTimestamp = MaxLog
    /\ Len(livePolyline.path) < MaxLog

\* the log and its stats, and the handlers that call addPointsToHistory
\* (the poll response), initializeHistoryFromPoints (the track response of a
\* join or resume) or resetHistoryState (reset and the two mode switches)
HistoryLog == <<historyPoints, historyCumulativeStats>>
LogWriters == {"pollLiveDataThen", "loadLiveTrackThen", "resetLiveMode",
               "switchToDateTimeMode", "switchToLiveMode"}
Navigation == {"navigateHistory", "handleHistoryJumpButton"}

\* C16: navigateHistory, handleHistoryJumpButton and exitHistoryMode leave
\* historyPoints and historyCumulativeStats as they are; the arrays change
\* only in handlers that call addPointsToHistory,
\* initializeHistoryFromPoints or resetHistoryState.
C16_NavigationReadsOnly ==
    [][/\ ev'.op \in Navigation => HistoryLog' = HistoryLog
       /\ HistoryLog' # HistoryLog => ev'.op \in LogWriters]_vars

\* the jump button took the user out of scrub mode on a full log
C16_Witness ==
    /\ ev.op = "handleHistoryJumpButton" /\ ev.exited
    /\ Len(historyPoints) = MaxLog

\* =================================================================
\* Properties of the poll loop and the session starts (SpecLive)
\* =================================================================

\* C17: the timestamps of the log increase with the index: whatever the
\* interleaving of polls, responses, stops and starts of polling, track
\* loads and animation completions, no point older than, or equal to, a
\* point already in the log is appended.
C17_LogIncreasing ==
    \A i \in 1..(Len(historyPoints) - 1) :
        historyPoints[i].tst < historyPoints[i + 1].tst

\* =================================================================
\* Properties of the history functions on any log (SpecHistory)
\* =================================================================

\* C18: in every log built by addPointsToHistory and
\* initializeHistoryFromPoints the cumulative distance never decreases from
\* one entry to the next, and a step between two points closer than the
\* noise floor adds nothing.
C18_DistanceNonDecreasing ==
    \A i \in 1..(Len(historyPoints) - 1) :
        /\ historyCumulativeStats[i].distance <= historyCumulativeStats[i + 1].distance
        /\ haversineDistance(historyPoints[i], historyPoints[i + 1]) < NoiseFloor
               => historyCumulativeStats[i + 1].distance = historyCumulativeStats[i].distance

\* an append ended a log of full length on a step below the noise floor,
\* after steps that counted
C18_Witness ==
    /\ ev.op = "addPointsToHistory" /\ Len(historyPoints) = MaxHist
    /\ historyCumulativeStats[MaxHist - 1].distance > 0
    /\ historyPoints[MaxHist - 1].pos # historyPoints[MaxHist].pos
    /\ historyCumulativeStats[MaxHist].distance = historyCumulativeStats[MaxHist - 1].distance

\* what a poll response is merged into
PollMerged == <<liveData, lastDrawnTimestamp, historyPoints, historyCumulativeStats,
                liveRideCounts, liveRidePoints>>

\* C19: a poll that fails (transport error, or a response with success
\* false) releases the single-flight flag and merges nothing: the snapshot,
\* the watermark, the log, the stats and the ride counters stay as they
\* were; the next tick of the poll timer then sends a new poll.
C19_FailedPollMergesNothing ==
    [][/\ \A r \in net :
             (/\ r \notin net' /\ r.kind = "poll"
              /\ \/ ev'.op = "pollLiveDataCatch"
                 \/ ev'.op = "pollLiveDataThen" /\ (ev'.outcome = "fail" \/ ~r.ok))
             => ~pollInProgress' /\ PollMerged' = PollMerged
       /\ (ev'.op = "pollTick" /\ ~pollInProgress)
             => ev'.sent = 1 /\ pollInProgress']_vars

\* a poll response said success: false while a recorded point waited to be
\* fetched: the flag is down, the poll timer is armed, the point is not merged
C19_Witness ==
    /\ ev.op = "pollLiveDataThen" /\ ev.outcome = "fail"
    /\ ~pollInProgress /\ livePollingInterval # 0
    /\ server.active /\ server.hi > lastDrawnTimestamp
    /\ Len(historyPoints) < server.hi - server.lo

\* the handlers that send a session start: Start Live Mode, Reset, and the
\* status response that joins, resumes or starts afresh
StartCalls == {"startLiveMode", "resetLiveMode", "checkLiveStatusThen"}

\* C20: a session start that fails (fresh start, join, resume or reset;
\* success false or transport error) leaves the cached snapshot liveData as
\* it was, in the call and in the handling of the failure, and the failure
\* starts no polling: no poll timer is armed and no poll is sent.
C20_FailedStartKeepsSnapshot ==
    [][/\ ev'.op \in StartCalls => liveData' = liveData
       /\ \A r \in net :
             (/\ r \notin net' /\ r.kind = "start"
              /\ \/ ev'.op = "startCatch"
                 \/ ev'.op = "startThen" /\ (ev'.outcome = "fail" \/ ~r.ok))
             => /\ liveData' = liveData
                /\ livePollingInterval' = livePollingInterval
                /\ pollTimers' = pollTimers
                /\ ev'.sent = 0]_vars

\* a reset of a running session failed: the snapshot of the session is
\* still cached and polling stays stopped
C20_Witness ==
    /\ ev.op = "startThen" /\ ev.outcome = "fail"
    /\ currentMode = "live" /\ dom.liveResetShown /\ ~dom.liveResetDisabled
    /\ liveData.set /\ livePollingInterval = 0 /\ pollTimers = {}

\* a start request r whose failure the step handles: the response says
\* success false, or the transport failed
FailedStart(r) ==
    /\ r \in net /\ r \notin net' /\ r.kind = "start"
    /\ \/ ev'.op = "startCatch"
       \/ ev'.op = "startThen" /\ (ev'.outcome = "fail" \/ ~r.ok)

\* C21: when a session start fails (fresh start, join, resume or reset), the
\* watermark, the per-type counters, the cached rides, liveAnimationShown and
\* the history log are what they were before the function that sent the
\* start was called.
C21_FailedStartKeepsCache ==
    [][\A r \in net : FailedStart(r) => CachedSession(St)' = r.before]_vars

\* the fetches of a kind the step puts on the wire
Sent(kind) == {r \in net' \ net : r.kind = kind /\ ~r.handled}

\* a fresh start r whose success the step handles
FreshStarted(r) ==
    /\ r \in net /\ r \notin net' /\ r.kind = "start" /\ r.intent = "fresh"
    /\ ev'.op = "startThen" /\ ev'.outcome = "ok" /\ r.ok

\* C22: a fresh start (startLiveMode) sets the watermark to 0, every per-type
\* ride counter and point counter to 0, empties the cached rides and clears
\* liveAnimationShown, and sends no poll itself; the first poll of the new
\* session, sent when the start succeeded, carries last_drawn_timestamp = 0.
C22_FreshStartResets ==
    [][/\ (\E r \in Sent("start") : r.intent = "fresh")
            => /\ lastDrawnTimestamp' = 0
               /\ liveRideCounts' = ZeroCounts /\ liveRidePoints' = ZeroCounts
               /\ liveRidesData' = ZeroCounts
               /\ ~liveAnimationShown'
               /\ Sent("poll") = {}
       /\ \A r \in net : FreshStarted(r) => \A p \in Sent("poll") : p.wm = 0]_vars

\* C23: a fresh start (startLiveMode) clears every local layer of the
\* previous live session: after it the live layer and the activity layers of
\* car, bike and other are absent from activityLayers.
C23_FreshStartClearsLayers ==
    [][(\E r \in Sent("start") : r.intent = "fresh")
           => \A k \in ActivityTypes \cup {"live"} : ~activityLayers'[k].present]_vars

\* a request r of a kind that the step takes off the wire and handles
Handled(r, kind) == r \in net /\ r \notin net' /\ r.kind = kind

\* C24: a join (joinLiveSession) sets the watermark and the per-type counters
\* to 0 and leaves liveAnimationShown as it is; once the animation of a join or
\* a resume has completed, with no fresh start or reset since, a join asks for
\* no animation, the track load that follows its response asks for none, and
\* the response of that track load draws the track without starting one.
C24_JoinReplaysOnce ==
    [][/\ \A r \in Sent("start") :
             r.intent = "join"
             => /\ lastDrawnTimestamp' = 0
                /\ liveRideCounts' = ZeroCounts /\ liveRidePoints' = ZeroCounts
                /\ liveAnimationShown' = liveAnimationShown
                /\ env.replayed => ~r.animate
       /\ \A r \in net :
             Handled(r, "start") /\ r.intent = "join" /\ ~r.animate
             => ~ev'.started /\ \A q \in Sent("liveTrack") : ~q.animate
       /\ \A q \in net :
             Handled(q, "liveTrack") /\ ~q.animate => ~ev'.started]_vars

\* the track of a session whose replay has completed was drawn at once by a
\* later join
C24_Witness ==
    /\ ev.op = "loadLiveTrackThen" /\ ev.outcome = "ok" /\ ~ev.started
    /\ env.replayed /\ liveAnimationShown
    /\ livePolyline.present /\ Len(livePolyline.path) > 0
    /\ ~animationRunning

\* the poll requests of a state
Polls(s) == {r \in s.net : r.kind = "poll"}

\* C25: startLivePolling and stopLivePolling are idempotent.  In every
\* reachable state at most one poll interval timer exists; startLivePolling
\* called while a timer exists changes nothing (no second timer, no poll);
\* called when none exists it arms exactly one timer and sends exactly one
\* poll at once; a second startLivePolling or stopLivePolling right after the
\* first changes nothing more.
C25_PollingIdempotent ==
    LET started == startLivePolling(St)
        stopped == stopLivePolling(St)
    IN  /\ Cardinality(pollTimers) <= 1
        /\ livePollingInterval # 0 => started = St
        /\ livePollingInterval = 0
               => /\ Cardinality(started.pollTimers) = 1
                  /\ started.livePollingInterval \in started.pollTimers
                  /\ Cardinality(Polls(started) \ Polls(St)) = 1
                  /\ started.ev.sent = ev.sent + 1
        /\ startLivePolling(started) = started
        /\ stopLivePolling(stopped) = stopped

\* a second session start succeeded while the interval of the first was
\* running: its startLivePolling found the timer and sent nothing
C25_Witness ==
    /\ ev.op = "startThen" /\ ev.outcome = "ok" /\ ev.sent = 0
    /\ livePollingInterval # 0 /\ pollTimers = {livePollingInterval}
    /\ \A r \in net : r.kind # "liveTrack"

\* the step is a handler that calls stopLivePolling: the switch from live to
\* datetime mode, or a confirmed reset
CallsStop ==
    \/ ev'.op = "switchToDateTimeMode" /\ currentMode = "live"
    \/ ev'.op = "resetLiveMode" /\ Sent("start") # {}

\* C26: after stopLivePolling() no poll timer is pending and pollInProgress
\* is false, whether or not a poll request was outstanding: for the call on
\* any reachable state, and at the end of every handler that makes the call.
C26_StopReleases ==
    [][/\ LET stopped == stopLivePolling(St)
          IN  /\ stopped.pollTimers = {} /\ stopped.livePollingInterval = 0
              /\ ~stopped.pollInProgress
       /\ CallsStop => /\ pollTimers' = {} /\ livePollingInterval' = 0
                       /\ ~pollInProgress']_vars

\* polling was stopped while a poll was outstanding: the poll is still on
\* the wire, the timer is gone and the flag is released
C26_Witness ==
    /\ ev.op \in {"switchToDateTimeMode", "resetLiveMode"}
    /\ \E r \in net : r.kind = "poll" /\ r.stale
    /\ pollTimers = {} /\ livePollingInterval = 0 /\ ~pollInProgress

\* the state of the animation engine, with its timers and the layers it
\* draws into
Engine ==
    <<animationTimer, animationPaused, animationResumeFunc, animationRunning,
      animationDrawnSegments, animationCurrentIdx, animationRunningDistance,
      animationLayer, animationSegments, animationFirstTimestamp,
      animationDelayMs, animationMode, animationOnComplete,
      animationActivityType, onAnimationProgress, activityLayers, timers,
      closures>>
IsPaused == animationRunning /\ animationPaused

\* C27: a call that violates its precondition leaves the whole engine state
\* unchanged and reports nothing: stepForward and stepBack when the engine is
\* not Paused (Idle, Running or completed), stepForward when no segment
\* remains, stepBack when no segment is drawn, togglePause when no animation
\* is running.
C27_RejectedCallsAreNoOps ==
    [][/\ ev'.op = "stepForward" /\ (~IsPaused \/ ~_hasMoreSegments(St))
            => Engine' = Engine /\ ev'.draw = 0 /\ ev'.progress = 0
       /\ ev'.op = "stepBack" /\ (~IsPaused \/ Len(animationDrawnSegments) = 0)
            => Engine' = Engine /\ ev'.undo = 0 /\ ev'.progress = 0
       /\ ev'.op = "togglePause" /\ ~animationRunning
            => Engine' = Engine]_vars

\* stepForward was called on a running animation with segments left, and
\* drew nothing
C27_Witness ==
    /\ ev.op = "stepForward" /\ ev.draw = 0
    /\ animationRunning /\ ~animationPaused /\ _hasMoreSegments(St)
    /\ Len(animationDrawnSegments) > 0

\* C28: whenever the engine is Paused (animationRunning and animationPaused)
\* no animation timer is pending; stepForward and stepBack schedule none; and
\* within one animation a timer is armed from Paused only by the resume of
\* togglePause.
C28_PausedHasNoTimer ==
    [][/\ IsPaused => timers = {}
       /\ ev'.op \in {"stepForward", "stepBack"} => timers' \subseteq timers
       /\ IsPaused /\ animCur' = animCur /\ ~(timers' \subseteq timers)
            => ev'.op = "togglePause" /\ ~animationPaused']_vars

\* the number of drawable segments of the animation: the flattened
\* segments in rich mode, the adjacent point pairs in basic mode
DrawableSegments ==
    IF animationMode = "rich" THEN Len(animationSegments.list)
    ELSE Len(animationSegments.list) - 1

\* C29: in rich and in basic mode the delay between two segments is
\* max(floor(min(S * msPerPoint, maxTotalMs) / S), 10), S being the number of
\* drawable segments of the track, for every S >= 1.
C29_DelayFromSegments ==
    ~animationSegments.null /\ DrawableSegments >= 1
        => animationDelayMs =
               Max(Min(DrawableSegments * ANIMATION_MS_PER_POINT,
                       ANIMATION_MAX_TOTAL_MS) \div DrawableSegments, MinDelayMs)

\* what the page shows of the live session and its history
HistoryView == <<Cursor, ScrubView, HistoryLog, livePolyline, activityLayers, dom>>

\* C30: handleHistoryJumpButton leaves scrub mode for the live tail when the
\* user is scrubbing; enters scrub mode at index 0 when the user is not
\* scrubbing and the log has more than one point; and changes nothing when
\* the user is not scrubbing and the log has zero or one point.  It never
\* changes the log.
C30_JumpToEdge ==
    [][ev'.op = "handleHistoryJumpButton" =>
          /\ HistoryLog' = HistoryLog
          /\ historyModeActive =>
                 ~historyModeActive' /\ historyViewIndex' = -1 /\ ev'.exited
          /\ ~historyModeActive /\ Len(historyPoints) > 1 =>
                 historyModeActive' /\ historyViewIndex' = 0
          /\ ~historyModeActive /\ Len(historyPoints) <= 1 =>
                 HistoryView' = HistoryView]_vars

\* the jump button took the user from the live tail of a log of several
\* points to its first point
C30_Witness ==
    /\ ev.op = "handleHistoryJumpButton" /\ ~ev.exited
    /\ historyModeActive /\ historyViewIndex = 0
    /\ Len(historyPoints) >= 2

\* =================================================================
\* Properties of the history aggregation (SpecHistory)
\* =================================================================
\* the page with an empty history log
EmptyLog == [St EXCEPT !.historyPoints = <<>>, !.historyCumulativeStats = <<>>]

\* points[from..] appended to the log of s by one call of addPointsToHistory
\* per batch, a batch ending at every position of cuts and at the last point
RECURSIVE AppendInBatches(_, _, _, _)
AppendInBatches(s, points, from, cuts) ==
    IF from > Len(points) THEN s
    ELSE LET ends == {c \in cuts : c >= from} \cup {Len(points)}
             to == CHOOSE c \in ends : \A d \in ends : c <= d
         IN  AppendInBatches(addPointsToHistory(s, SubSeq(points, from, to)),
                             points, to + 1, cuts)

\* C31: for every point list P, initializeHistoryFromPoints(P) produces the
\* same historyPoints and historyCumulativeStats as addPointsToHistory called
\* from an empty log on any split of P into consecutive batches (P in one
\* call, one point per call, and every split between); P is the log of any
\* reachable state, which is itself the outcome of some sequence of appends
\* and rebuilds and equals both.
C31_InitializeEqualsAppends ==
    LET P == historyPoints
        rebuilt == initializeHistoryFromPoints(St, P)
    IN  /\ HistoryLog = <<rebuilt.historyPoints, rebuilt.historyCumulativeStats>>
        /\ \A cuts \in SUBSET (1..(Len(P) - 1)) :
               LET appended == AppendInBatches(EmptyLog, P, 1, cuts)
               IN  /\ appended.historyPoints = rebuilt.historyPoints
                   /\ appended.historyCumulativeStats = rebuilt.historyCumulativeStats

\* a log of several points with distance counted was rebuilt in one pass
C31_Witness ==
    /\ ev.op = "initializeHistoryFromPoints"
    /\ Len(historyPoints) = MaxBatch
    /\ Last(historyCumulativeStats).distance > 0

\* the distance counted for one segment: nothing below the noise floor, the
\* great-circle distance times the road factor otherwise
AdjustedSegmentDistance(p, q) ==
    LET d == haversineDistance(p, q)
    IN  IF d >= NoiseFloor THEN FRound((d * RoadFactorPct) \div 100) ELSE 0

\* C32: for every index i of the log, historyCumulativeStats[i].duration is
\* historyPoints[i].tst minus the tst of the first log entry (0 for the first
\* entry) and historyCumulativeStats[i].distance is the previous entry's
\* distance plus the adjusted distance between the log entries i-1 and i (0
\* for the first entry), whichever append batch added the previous entry.
C32_StatsPerIndex ==
    /\ Len(historyCumulativeStats) = Len(historyPoints)
    /\ \A i \in 1..Len(historyPoints) :
           LET stat == historyCumulativeStats[i]
           IN  IF i = 1 THEN stat.duration = 0 /\ stat.distance = 0
               ELSE /\ stat.duration = historyPoints[i].tst - historyPoints[1].tst
                    /\ stat.distance =
                           FAdd(historyCumulativeStats[i - 1].distance,
                                AdjustedSegmentDistance(historyPoints[i - 1],
                                                        historyPoints[i]))

\* a log longer than two batches in which every segment counted, so that a
\* segment across the boundary of two append batches was measured
C32_Witness ==
    /\ ev.op = "addPointsToHistory"
    /\ Len(historyPoints) > 2 * MaxBatch - 1
    /\ \A i \in 2..Len(historyPoints) :
           historyCumulativeStats[i].distance > historyCumulativeStats[i - 1].distance

\* =================================================================
\* Properties of the ride layers of the live session (SpecScrub)
\* =================================================================
\* the ride counters the response r of a poll carries
ResponseStats(r) == SessionStats(r.hi - r.start)

\* the six counters of r differ from the stored ones
RidesChanged(r) ==
    \/ ResponseStats(r).count # liveRideCounts
    \/ ResponseStats(r).points # liveRidePoints

\* C33: on a successful poll the rich activity layers are refetched exactly
\* when one of the six values of the response (ride count and point count of
\* car, bike, other) differs from the stored counters: the refresh then
\* requests the rides of every type the response has rides of and empties the
\* cached rides of the others; a response with no difference sends no
\* request and leaves the cached rides alone.  Either way the stored
\* counters equal the response's values after the response is handled.
C33_RefetchOnDelta ==
    [][\A r \in net :
          (Handled(r, "poll") /\ ev'.op = "pollLiveDataThen" /\ ev'.outcome = "ok" /\ r.ok)
          => /\ liveRideCounts' = ResponseStats(r).count
             /\ liveRidePoints' = ResponseStats(r).points
             /\ RidesChanged(r) =>
                    /\ \A t \in ActivityTypes :
                           IF ResponseStats(r).count[t] > 0
                           THEN Cardinality({q \in Sent("refresh") : q.type = t}) = 1
                           ELSE /\ {q \in Sent("refresh") : q.type = t} = {}
                                /\ liveRidesData'[t] = 0
             /\ ~RidesChanged(r) =>
                    Sent("refresh") = {} /\ liveRidesData' = liveRidesData]_vars

\* a poll response whose ride count equals the stored one and whose point
\* count is larger has been handled: the rides are being refetched
C33_Witness ==
    /\ ev.op = "pollLiveDataThen" /\ ev.outcome = "ok"
    /\ liveRideCounts.car = 1 /\ liveRidePoints.car = MaxLog
    /\ liveRidesData.car = 1
    /\ \E q \in net : q.kind = "refresh" /\ q.type = "car" /\ ~q.handled

\* =================================================================
\* Properties of the session status dialogs (SpecJoin)
\* =================================================================
\* the page variables of state s that a session start writes or could write
SessionPage(s) ==
    <<s.lastDrawnTimestamp, s.liveRideCounts, s.liveRidePoints, s.liveRidesData,
      s.liveAnimationShown, s.liveData, s.activityLayers, s.livePolyline,
      s.historyPoints, s.historyCumulativeStats, s.historyModeActive,
      s.livePollingInterval, s.pollTimers, s.pollInProgress, s.currentMode, s.dom>>

\* the status response r that the step handles
StatusHandled(r) ==
    Handled(r, "status") /\ ev'.op = "checkLiveStatusThen" /\ ev'.outcome = "ok" /\ r.ok

\* C34: the response to a status request decides what is sent next.  A
\* session that is neither active nor absent (stale or recent) puts the choice
\* to the user: the step sends exactly one start, a resume ({resume: true})
\* or a fresh start (no flag), and the fresh start leaves the page exactly as
\* a call of startLiveMode from the same state does, with the watermark, the
\* counters and the cached rides zeroed and liveAnimationShown cleared.  An
\* active session is joined (one start, no flag, nothing asked), stale or
\* not.  No session: nothing is sent.
C34_StatusDecides ==
    [][\A r \in net : StatusHandled(r) =>
          /\ Sent("poll") = {} /\ Sent("liveTrack") = {}
          /\ ~r.has_session => Sent("start") = {}
          /\ r.has_session /\ r.is_active =>
                 /\ Cardinality(Sent("start")) = 1
                 /\ \A q \in Sent("start") : q.intent = "join"
          /\ r.has_session /\ ~r.is_active =>
                 /\ Cardinality(Sent("start")) = 1
                 /\ \A q \in Sent("start") :
                        /\ q.intent \in {"resume", "fresh"}
                        /\ q.intent = "fresh" =>
                               /\ SessionPage(St)' = SessionPage(startLiveMode(St))
                               /\ lastDrawnTimestamp' = 0
                               /\ liveRideCounts' = ZeroCounts
                               /\ liveRidePoints' = ZeroCounts
                               /\ liveRidesData' = ZeroCounts
                               /\ ~liveAnimationShown']_vars

\* the backend holds a stale session, inactive since its restart; the user
\* was asked and chose to start afresh: the fresh start is on the wire and
\* the page is reset
C34_Witness ==
    /\ ev.op = "checkLiveStatusThen" /\ ev.outcome = "ok"
    /\ server.has /\ ~server.active /\ server.stale
    /\ \E q \in net : q.kind = "start" /\ q.intent = "fresh" /\ ~q.handled
    /\ lastDrawnTimestamp = 0 /\ ~liveAnimationShown

\* =================================================================
\* The index and the undo list of the engine (SpecPlayback)
\* =================================================================
\* the distances of the undo list added up in the order they were drawn
RECURSIVE SumDistances(_)
SumDistances(drawn) ==
    IF drawn = <<>> THEN 0
    ELSE FAdd(SumDistances(Front(drawn)), Last(drawn).distance)

\* the index and the undo list agree: the index is the start value of the
\* mode (0 rich, 1 basic) plus the number of segments in the undo list
IndexAgrees ==
    ~animationSegments.null =>
        /\ animationCurrentIdx = FirstIdx + Len(animationDrawnSegments)
        /\ animationCurrentIdx >= FirstIdx

C36_PollsOnlyInLiveMode ==
    (livePollingInterval # 0 \/ pollTimers # {}) => currentMode = "live"

\* =================================================================
\* The replay of a joined session and the poll loop (SpecJoin)
\* =================================================================
\* a start request sent by joinLiveSession or resumeLiveSession
JoinStart(r) == r.kind = "start" /\ r.intent \in {"join", "resume"}

\* the replay animation of the live track is running in state s
Replaying(s) == s.animationRunning /\ s.animationActivityType = "live"

\* C37: on a join or a resume of a session that has points, polling starts
\* only once the track is loaded: the start response arms no interval and
\* sends no poll but requests the track; the track response (drawn at once)
\* or the completion of its animation sets the watermark to the tst of the
\* last loaded point before the first poll is sent, so that this poll never
\* carries watermark 0; and no poll is sent while the replay animation is
\* running.
C37_PollsAfterReplay ==
    [][/\ \A r \in net :
             (/\ Handled(r, "start") /\ JoinStart(r)
              /\ ev'.op = "startThen" /\ ev'.outcome = "ok"
              /\ r.ok /\ r.hi - r.start > 0)
             => /\ Sent("poll") = {}
                /\ livePollingInterval' = livePollingInterval
                /\ Cardinality(Sent("liveTrack")) = 1
       /\ \A r \in net :
             (/\ Handled(r, "liveTrack")
              /\ ev'.op = "loadLiveTrackThen" /\ ev'.outcome = "ok"
              /\ r.ok /\ r.hi > r.lo)
             => \A q \in Sent("poll") :
                    q.wm # 0 /\ q.wm = r.hi /\ lastDrawnTimestamp' = r.hi
       /\ (ev'.op = "drawNext" /\ ev'.complete > 0 /\ animationOnComplete.kind = "live")
             => \A q \in Sent("poll") : q.wm # 0 /\ q.wm = lastDrawnTimestamp'
       /\ \A q \in Sent("poll") : ~Replaying(St)']_vars

\* =================================================================
\* Termination of one animation (SpecRun)
\* =================================================================
\* an animation of at least one segment is under way
AnimationStarted ==
    animationRunning /\ ~animationSegments.null /\ DrawableSegments >= 1

\* the animation has drawn all its segments and run its completion callback
AnimationCompleted ==
    /\ ~animationRunning /\ ~animationSegments.null
    /\ Len(animationDrawnSegments) = DrawableSegments
    /\ Exhausted /\ run.completes > 0

\* a stepBack that takes a drawn segment back
StepBackUndoes == ev'.op = "stepBack" /\ ev'.undo = 1

\* C38 as stated: with the animation timer firing fairly, an animation that
\* was started with at least one segment, is not stopped, and whose every
\* pause is eventually followed by a resume, eventually completes: all
\* segments drawn, animationRunning false and onComplete invoked.
C38_AnimationCompletes ==
    <>[]animationPaused \/ (AnimationStarted ~> AnimationCompleted)

\* C38 amended: the same, for an animation in which only finitely many
\* stepBack calls take a segment back.
C38_CompletesUnlessSteppedBackForever ==
    \/ <>[]animationPaused
    \/ []<><<StepBackUndoes>>_vars
    \/ (AnimationStarted ~> AnimationCompleted)

\* an animation that was paused, stepped back and resumed has completed
C38_Witness ==
    /\ AnimationCompleted /\ run.back /\ run.completes = 1
    /\ ev.op = "drawNext" /\ ev.complete = 1
    /\ DrawableSegments = MaxRunSegs

\* =================================================================
\* The single-flight flag of the poll loop (SpecPoll)
\* =================================================================
\* C39: the single-flight flag never stays set forever.  In every reachable
\* state pollInProgress implies that a poll is outstanding; the handler of
\* every poll response (success, success: false, transport error) leaves the
\* flag cleared; and while the poll interval stays armed and responses
\* arrive, polls are sent again and again.
C39_FlagReleased ==
    /\ [](pollInProgress => PollsInFlight # {})
    /\ [][\A r \in net : (r.handled /\ Handled(r, "poll")) => ~pollInProgress']_vars
    /\ ([]<>(livePollingInterval = 0) \/ []<><<Sent("poll") # {}>>_vars)

\* after a poll that failed the next tick of the interval found the flag
\* cleared and sent a new poll
C39_Witness ==
    /\ ev.op = "pollTick" /\ ev.sent = 1 /\ env.faults > 0
    /\ pollInProgress /\ PollsInFlight # {}
    /\ livePollingInterval # 0

====
